---- MODULE Spec2Model ----
(***************************************************************************)
(* Verification model of the document ingestion / retrieval / answer       *)
(* routing code of the chat backend (src/backend).                         *)
(*                                                                         *)
(* SpecQuery   : UnifiedAgent.process_query over CleanRAGSystem            *)
(* SpecService : FirebaseAgentService / QueryService / the HTTP endpoints  *)
(* SpecEnv     : concurrent FirebaseAgentService._process_with_agent calls *)
(* SpecIngest  : DocumentService.process_documents over LazyRAG            *)
(* SpecAnswer  : LazyRAG.generate_result and the agents' use of its result *)
(* SpecStores  : LightweightRAG and MultiModalRAG over VectorDBClient      *)
(* SpecChat    : concurrent FirebaseChatService calls over Firestore        *)
(* SpecEmbed   : concurrent SimpleColpaliClient embedding calls             *)
(* SpecVerdict : the sufficiency verdict computed from retrieval scores     *)
(* SpecInit    : concurrent first calls on a shared LazyRAG instance       *)
(***************************************************************************)
EXTENDS Integers, Sequences, FiniteSets, TLC

(***************************************************************************)
(* Bounds of the model                                                     *)
(***************************************************************************)
MaxVectors == 2
MaxKeywordMatches == 1
MaxUploadPages == 2
MaxFiles == 2
MaxEmbedFailures == 1
MaxPages == 2
MaxPoints == 3

MaxThreads == 2

MaxHits == 4

MaxDocuments == 2

MaxSessions == 2

MaxResults == 3
MaxMessages == 2

(***************************************************************************)
(* Program constants                                                       *)
(***************************************************************************)
\* limit=5 of the vector search in CleanRAGSystem.process_query
SearchLimit == 5
\* similarity scores in tenths: 0.8 and 0.6 of evaluate_retrieval_quality
HighThreshold == 8
MediumThreshold == 6
\* 0.7 of the evaluation in LightweightRAG.generate_result
LightHighThreshold == 7

None == "None"

\* scores (in tenths) a search hit can carry in the model
Scores == {5, 7, 9}

VARIABLES
    \* ---- UnifiedAgent / CleanRAGSystem (SpecQuery) ----
    rag_system,        \* UnifiedAgent.rag_system is not None
    rag,               \* CleanRAGSystem fields: initialized, colpali, qdrant, gemini
    index,             \* the Qdrant server: collection_exists, vectors_count
    providers,         \* reachability of the providers during the current call
    query,             \* the query being processed
    pc,                \* position of UnifiedAgent.process_query
    query_analysis,    \* result of _detect_query_type
    calls,             \* provider calls made for the current query, in order
    result,            \* the dict returned by process_query
    \* ---- DocumentService / LazyRAG (SpecIngest) ----
    document_store,    \* DocumentService.document_store, doc ids in order of insertion
    embedding_store,   \* DocumentService.embedding_store, the page keys
    lazy_rag,          \* LazyRAG fields: initialized, colpali, qdrant, gemini
    collection,        \* the Qdrant collection 'documents': exists, points
    next_uuid,         \* the uuid4 values drawn so far
    files,             \* the batch handed to process_documents
    ingest_env,        \* provider outcomes during the current batch
    ipc,               \* position of process_documents
    file_no,           \* index of the file the loop is at
    all_data,          \* all_data of process_documents
    processed_files,   \* processed_files of process_documents
    summary,           \* the dict returned by process_documents
    doc_counter,       \* converter._doc_counter of the module-level converter
    saved_images,      \* names of the page images written to saved_images_dir
    \* ---- FirebaseAgentService / QueryService / endpoints (SpecService) ----
    agent_status,      \* agents._agent_status
    sreq,              \* the call or HTTP request being served
    spc,               \* position of the handler serving it
    sres,              \* what the caller gets: a returned value or an exception
    \* ---- FirebaseAgentService._process_with_agent threads (SpecEnv) ----
    environ,           \* os.environ, one per process
    gemini,            \* LazyRAG._initialized and the key _init_gemini configured
    ereq,              \* per request thread: its user, agent type, documents
    epc,               \* per request thread: its position in _process_with_agent
    eidx,              \* per request thread: position of its loop over the keys
    original_keys,     \* per request thread: its local original_keys dict
    used,              \* per request thread: the key its provider call ran with
    \* ---- LazyRAG.generate_result and its callers (SpecAnswer) ----
    answer_rag,        \* LazyRAG fields: initialized, colpali, qdrant, gemini
    stored_pages,      \* payloads of the points in the collection 'documents'
    areq,              \* the query being answered and the provider outcomes
    apc,               \* position of the call
    rag_result,        \* the dict generate_result returned
    ares,              \* what the caller of the operation receives
    search_issued,     \* the call at hand sent a search to the vector store
    \* ---- LightweightRAG and MultiModalRAG / VectorDBClient (SpecStores) ----
    light_documents,   \* LightweightRAG.documents, in insertion order
    test_points,       \* the points of the Qdrant collection 'test'
    store_counter,     \* _doc_counter of the converter feeding these stores
    ingested,          \* the pages handed to index_document so far
    lpc,               \* position: idle, or a search has returned
    lquery,            \* the query of the last search
    lresults,          \* what search_documents returned for it
    \* ---- FirebaseChatService over Firestore (SpecChat) ----
    chat_sessions,     \* collection 'chat_sessions': the session documents, by id
    messages,          \* collection 'messages': the message documents, by id
    chat,              \* each thread's add_message call: position and locals
    chat_result,       \* what the last completed chat operation returned
    \* ---- SimpleColpaliClient over numpy's global generator (SpecEmbed) ----
    np_random,         \* the process-wide np.random state: its seed, values drawn since
    emb,               \* each thread's embedding call: position, text, returned vector
    \* ---- the sufficiency verdict of a retrieval (SpecVerdict) ----
    retrieved_scores,  \* the scores of the retrieved pages, in tenths
    evaluation,        \* the 'evaluation' dict computed from them, and by whom
    \* ---- concurrent first calls on a shared LazyRAG / CleanRAGSystem (SpecInit) ----
    rag_initialized,   \* self._initialized of the shared instance
    qdrant_collections,\* the collection of the instance exists in Qdrant
    init_body_runs,    \* how often the body of _ensure_initialized was entered
    create_on_existing,\* create_collection was called for a collection that existed
    first_call         \* per thread: position in its call, its local collection_exists

qvars == <<rag_system, rag, index, providers, query, pc, query_analysis, calls, result>>

ivars == <<document_store, embedding_store, lazy_rag, collection, next_uuid, files,
           ingest_env, ipc, file_no, all_data, processed_files, summary,
           doc_counter, saved_images>>

svars == <<agent_status, sreq, spc, sres>>

evars == <<environ, gemini, ereq, epc, eidx, original_keys, used>>

avars == <<answer_rag, stored_pages, areq, apc, rag_result, ares, search_issued>>

lvars == <<light_documents, test_points, store_counter, ingested, lpc, lquery, lresults>>

cvars == <<chat_sessions, messages, chat, chat_result>>

gvars == <<np_random, emb>>

vvars == <<retrieved_scores, evaluation>>

nvars == <<rag_initialized, qdrant_collections, init_body_runs, create_on_existing, first_call>>

vars == <<qvars, ivars, svars, evars, avars, lvars, cvars, gvars, vvars, nvars>>

(***************************************************************************)
(* Pure helpers                                                            *)
(***************************************************************************)
RECURSIVE SumSeq(_)
SumSeq(s) == IF s = <<>> THEN 0 ELSE Head(s) + SumSeq(Tail(s))

Min(a, b) == IF a < b THEN a ELSE b

\* sequences over S of length 0..n
SeqsUpTo(S, n) == UNION {[1..k -> S] : k \in 0..n}

\* MultiModalRAG.evaluate_retrieval_quality: the sufficiency verdict computed
\* from the scores of the retrieved pages (avg_score > t  <=>  sum > t * len)
evaluate_retrieval_quality(scores) ==
    IF Len(scores) = 0
    THEN [sufficient |-> FALSE, confidence |-> "none"]
    ELSE IF SumSeq(scores) > HighThreshold * Len(scores) /\ Len(scores) >= 2
    THEN [sufficient |-> TRUE, confidence |-> "high"]
    ELSE IF SumSeq(scores) > MediumThreshold * Len(scores) /\ Len(scores) >= 1
    THEN [sufficient |-> TRUE, confidence |-> "medium"]
    ELSE [sufficient |-> FALSE, confidence |-> "low"]

(***************************************************************************)
(* CleanRAGSystem                                                          *)
(***************************************************************************)
NoResult == [status |-> None, source |-> None, response |-> None, raised |-> FALSE]

\* CleanRAGSystem._init_collection: creates the collection only when the
\* listing succeeds and does not contain it; every exception is swallowed
init_collection(idx, up) ==
    IF up /\ ~idx.collection_exists
    THEN [idx EXCEPT !.collection_exists = TRUE]
    ELSE idx

\* CleanRAGSystem._ensure_initialized: the fields after the call.  failAt is
\* the constructor that raised ("none" when the body ran through); the flag
\* is set in either case
ensure_initialized(r, failAt, keyPresent) ==
    IF r.initialized THEN r
    ELSE [initialized |-> TRUE,
          colpali |-> failAt \notin {"converter", "colpali"},
          qdrant  |-> failAt = "none",
          gemini  |-> failAt = "none" /\ keyPresent]

\* the index after _ensure_initialized
ensure_initialized_index(r, idx, failAt, up) ==
    IF ~r.initialized /\ failAt = "none" THEN init_collection(idx, up) ELSE idx

\* CleanRAGSystem.get_document_count
get_document_count(r, idx, up) ==
    IF r.qdrant /\ up /\ idx.collection_exists THEN idx.vectors_count ELSE 0

\* CleanRAGSystem.process_query: status and images_retrieved of the returned
\* dict, given the initialised fields, the index and the search hits
rag_process_query(r, idx, prov, hits) ==
    IF ~r.colpali THEN [status |-> "error", images_retrieved |-> 0, searched |-> FALSE]
    ELSE IF ~r.qdrant \/ ~prov.indexUp \/ ~idx.collection_exists
    THEN [status |-> "error", images_retrieved |-> 0, searched |-> r.qdrant]
    ELSE IF Len(hits) > 0 /\ r.gemini
    THEN IF prov.geminiUp
         THEN [status |-> "success", images_retrieved |-> Len(hits), searched |-> TRUE]
         ELSE [status |-> "error", images_retrieved |-> 0, searched |-> TRUE]
    ELSE [status |-> "success", images_retrieved |-> 0, searched |-> TRUE]

(***************************************************************************)
(* UnifiedAgent                                                            *)
(***************************************************************************)
\* UnifiedAgent._detect_query_type
detect_query_type(document_score, web_score, doc_count) ==
    IF document_score > 0 /\ doc_count > 0 THEN "document"
    ELSE IF web_score > 0 THEN "web_search"
    ELSE IF doc_count > 0 THEN "document"
    ELSE "general"

\* UnifiedAgent._process_document_query
process_document_query(hasRag, r) ==
    IF ~hasRag
    THEN [status |-> "error", source |-> "document", response |-> None, raised |-> FALSE]
    ELSE IF r.status = "success"
    THEN [status |-> "success", source |-> "document", response |-> "text", raised |-> FALSE]
    ELSE [status |-> "error", source |-> "document", response |-> None, raised |-> FALSE]

\* UnifiedAgent._process_web_search_query: the results are simulated, no
\* provider is contacted
process_web_search_query ==
    [status |-> "success", source |-> "web_search", response |-> "text", raised |-> FALSE]

\* UnifiedAgent._process_general_query
process_general_query ==
    [status |-> "success", source |-> "general_knowledge", response |-> "text", raised |-> FALSE]

\* the except branch of UnifiedAgent.process_query
process_query_failed ==
    [status |-> "error", source |-> "error", response |-> None, raised |-> FALSE]

InitQuery ==
    /\ rag_system \in BOOLEAN
    /\ rag = [initialized |-> FALSE, colpali |-> FALSE, qdrant |-> FALSE, gemini |-> FALSE]
    /\ index \in [collection_exists : BOOLEAN, vectors_count : 0..MaxVectors]
    /\ index.collection_exists \/ index.vectors_count = 0
    /\ providers = [indexUp |-> TRUE, geminiUp |-> TRUE, webUp |-> TRUE, keyPresent |-> TRUE]
    /\ query = [isStr |-> TRUE, document_score |-> 0, web_score |-> 0, hits |-> <<>>]
    /\ pc = "idle"
    /\ query_analysis = [type |-> None, doc_count |-> 0]
    /\ calls = <<>>
    /\ result = NoResult

\* a caller hands a query to UnifiedAgent.process_query; the providers are in
\* some state of reachability for the duration of the call
StartQuery ==
    /\ UNCHANGED <<ivars, svars, evars, avars, lvars, cvars, gvars, vvars, nvars>>
    /\ pc = "idle"
    /\ \E isStr \in BOOLEAN, ds \in 0..MaxKeywordMatches, ws \in 0..MaxKeywordMatches,
          iu \in BOOLEAN, gu \in BOOLEAN, wu \in BOOLEAN, kp \in BOOLEAN :
         \E hits \in SeqsUpTo(Scores, Min(Min(index.vectors_count, SearchLimit), MaxVectors)) :
            /\ query' = [isStr |-> isStr, document_score |-> ds, web_score |-> ws,
                         hits |-> IF iu THEN hits ELSE <<>>]
            /\ providers' = [indexUp |-> iu, geminiUp |-> gu, webUp |-> wu, keyPresent |-> kp]
    /\ pc' = "detect"
    /\ query_analysis' = [type |-> None, doc_count |-> 0]
    /\ calls' = <<>>
    /\ result' = NoResult
    /\ UNCHANGED <<rag_system, rag, index>>

\* process_query step 1: _detect_query_type; query.lower() raises for a query
\* that is no string and the except branch of process_query answers
DetectQueryType ==
    /\ UNCHANGED <<ivars, svars, evars, avars, lvars, cvars, gvars, vvars, nvars>>
    /\ pc = "detect"
    /\ IF ~query.isStr
       THEN /\ result' = process_query_failed
            /\ pc' = "done"
            /\ UNCHANGED query_analysis
       ELSE LET dc == IF rag_system
                      THEN get_document_count(rag, index, providers.indexUp)
                      ELSE 0
            IN /\ query_analysis' =
                     [type |-> detect_query_type(query.document_score, query.web_score, dc),
                      doc_count |-> dc]
               /\ pc' = "route"
               /\ UNCHANGED result
    /\ UNCHANGED <<rag_system, rag, index, providers, query, calls>>

\* process_query step 2, type 'document': _process_document_query, which runs
\* CleanRAGSystem.process_query (initialisation, embedding, search, analysis)
ProcessDocumentQuery ==
    /\ UNCHANGED <<ivars, svars, evars, avars, lvars, cvars, gvars, vvars, nvars>>
    /\ pc = "route"
    /\ query_analysis.type = "document"
    /\ \E failAt \in {"none", "converter", "colpali", "qdrant"} :
         LET r1 == ensure_initialized(rag, failAt, providers.keyPresent)
             i1 == ensure_initialized_index(rag, index, failAt, providers.indexUp)
             rr == rag_process_query(r1, i1, providers, query.hits)
         IN /\ rag' = IF rag_system THEN r1 ELSE rag
            /\ index' = IF rag_system THEN i1 ELSE index
            /\ calls' = IF rag_system /\ rr.searched
                        THEN Append(calls, "local_retrieval") ELSE calls
            /\ result' = process_document_query(rag_system, rr)
    /\ pc' = "done"
    /\ UNCHANGED <<rag_system, providers, query, query_analysis>>

\* process_query step 2, type 'web_search'
ProcessWebSearchQuery ==
    /\ UNCHANGED <<ivars, svars, evars, avars, lvars, cvars, gvars, vvars, nvars>>
    /\ pc = "route"
    /\ query_analysis.type = "web_search"
    /\ calls' = Append(calls, "web_search")
    /\ result' = process_web_search_query
    /\ pc' = "done"
    /\ UNCHANGED <<rag_system, rag, index, providers, query, query_analysis>>

\* process_query step 2, type 'general'
ProcessGeneralQuery ==
    /\ UNCHANGED <<ivars, svars, evars, avars, lvars, cvars, gvars, vvars, nvars>>
    /\ pc = "route"
    /\ query_analysis.type = "general"
    /\ calls' = Append(calls, "general_knowledge")
    /\ result' = process_general_query
    /\ pc' = "done"
    /\ UNCHANGED <<rag_system, rag, index, providers, query, query_analysis>>

\* process_query returns its dict to the caller, the agent is free again
ReturnResult ==
    /\ UNCHANGED <<ivars, svars, evars, avars, lvars, cvars, gvars, vvars, nvars>>
    /\ pc = "done"
    /\ pc' = "idle"
    /\ providers' = [indexUp |-> TRUE, geminiUp |-> TRUE, webUp |-> TRUE, keyPresent |-> TRUE]
    /\ query' = [isStr |-> TRUE, document_score |-> 0, web_score |-> 0, hits |-> <<>>]
    /\ query_analysis' = [type |-> None, doc_count |-> 0]
    /\ calls' = <<>>
    /\ result' = NoResult
    /\ UNCHANGED <<rag_system, rag, index>>

\* CleanRAGSystem.process_document_upload of a PDF with n pages
ProcessDocumentUpload ==
    /\ UNCHANGED <<ivars, svars, evars, avars, lvars, cvars, gvars, vvars, nvars>>
    /\ pc = "idle"
    /\ rag_system
    /\ \E n \in 1..MaxUploadPages, up \in BOOLEAN,
          failAt \in {"none", "converter", "colpali", "qdrant"} :
         LET r1 == ensure_initialized(rag, failAt, providers.keyPresent)
             i1 == ensure_initialized_index(rag, index, failAt, up)
             stored == r1.colpali /\ r1.qdrant /\ up /\ i1.collection_exists
                       /\ i1.vectors_count + n <= MaxVectors
         IN /\ rag' = r1
            /\ index' = IF stored
                        THEN [i1 EXCEPT !.vectors_count = i1.vectors_count + n]
                        ELSE i1
    /\ UNCHANGED <<rag_system, providers, query, pc, query_analysis, calls, result>>

NextQuery ==
    \/ StartQuery
    \/ DetectQueryType
    \/ ProcessDocumentQuery
    \/ ProcessWebSearchQuery
    \/ ProcessGeneralQuery
    \/ ReturnResult
    \/ ProcessDocumentUpload


(***************************************************************************)
(* DocumentService.process_documents over LazyRAG                          *)
(***************************************************************************)
PdfNames == {"a.pdf", "b.pdf"}
OtherNames == {"notes.txt"}

\* an uploaded file: its name, whether the renderer can open it, and the
\* number of pages the renderer finds
FileKinds == [filename : PdfNames \cup OtherNames, corrupt : BOOLEAN, pages : 1..MaxPages]

NoSummary == [status |-> None, pages_processed |-> 0, files_processed |-> <<>>,
              embeddings_generated |-> 0, errors |-> <<>>, warnings |-> <<>>]

\* file.filename.lower().endswith('.pdf')
is_pdf(f) == f.filename \in PdfNames

\* PdfConverterAlternative.pdf_to_image / PdfConverter.pdf_to_image: the page
\* numbers of the converted pages; a file the renderer cannot open gives []
pdf_to_image(f) == IF f.corrupt THEN <<>> ELSE [i \in 1..f.pages |-> i]

\* pdf_name.replace('.pdf', '')
stem(pdf_name) ==
    CASE pdf_name = "a.pdf" -> "a"
      [] pdf_name = "b.pdf" -> "b"
      [] OTHER -> pdf_name

\* f"doc_{doc_id}_page_{page}_{stem}.png", from the texts of its fields
image_filename(doc_id_text, page_text, pdf_name) ==
    "doc_" \o doc_id_text \o "_page_" \o page_text \o "_" \o stem(pdf_name) \o ".png"

\* the images pdf_to_image writes for a file while _doc_counter is n
written_images(f, n) ==
    {image_filename(ToString(n), ToString(i), f.filename) : i \in 1..Len(pdf_to_image(f))}

\* MultiModalRAG.get_result_images: the image path built from the doc_id,
\* page number and filename of a retrieved payload
page_image_path(doc_id, page_num, filename) ==
    image_filename(doc_id, ToString(page_num), filename)

\* f"doc_{len(self.document_store) + 1}"
new_doc_id(store) == "doc_" \o ToString(Len(store) + 1)

\* the page dict process_documents builds for page i of the file
page_data_with_embedding(doc_id, i, f) ==
    [doc_id |-> doc_id, page_number |-> i, filename |-> f.filename,
     text_content |-> <<"Page", i, f.filename>>, embedding_generated |-> TRUE]

\* LazyRAG._ensure_initialized
lazy_ensure_initialized(r, initOk, keyPresent) ==
    IF r.initialized THEN r
    ELSE [initialized |-> TRUE, colpali |-> initOk, qdrant |-> initOk,
          gemini |-> initOk /\ keyPresent]

\* LazyRAG._init_collection, run by the first _ensure_initialized: the
\* collection is created when it is absent and the index answers
lazy_init_collection(r, c, initOk, up) ==
    IF ~r.initialized /\ initOk /\ up THEN [c EXCEPT !.exists = TRUE] ELSE c

\* the pages of the dataset LazyRAG.index_document embeds: those whose
\* embedding call does not raise, in dataset order
RECURSIVE embedded_pages(_, _)
embedded_pages(dataset, fail) ==
    IF dataset = <<>> THEN <<>>
    ELSE LET item == Head(dataset)
             rest == embedded_pages(Tail(dataset), fail)
         IN IF <<item.filename, item.page_number>> \in fail
            THEN rest
            ELSE <<item>> \o rest

\* the points LazyRAG.index_document builds, with fresh uuid4 ids
make_points(pages, first_id) ==
    [k \in 1..Len(pages) |->
        [id |-> first_id + k,
         doc_id |-> pages[k].doc_id,
         page_number |-> pages[k].page_number,
         filename |-> pages[k].filename,
         text_content |-> pages[k].text_content,
         source |-> "document"]]

\* LazyRAG.index_document: the dict it returns and the points it upserts
index_document(r, c, dataset, env) ==
    IF ~r.colpali \/ ~r.qdrant
    THEN [status |-> "error", pages_processed |-> 0, upserted |-> <<>>]
    ELSE LET pages == embedded_pages(dataset, env.embed_fail)
         IN IF pages # <<>> /\ (~env.indexUp \/ ~c.exists)
            THEN [status |-> "error", pages_processed |-> 0, upserted |-> <<>>]
            ELSE [status |-> "success", pages_processed |-> Len(pages),
                  upserted |-> make_points(pages, next_uuid)]

IngestIdle ==
    /\ document_store = <<>>
    /\ embedding_store = {}
    /\ lazy_rag = [initialized |-> FALSE, colpali |-> FALSE, qdrant |-> FALSE, gemini |-> FALSE]
    /\ collection = [exists |-> FALSE, points |-> <<>>]
    /\ next_uuid = 0
    /\ files = <<>>
    /\ ingest_env = [indexUp |-> TRUE, initOk |-> TRUE, saveOk |-> TRUE, embed_fail |-> {}]
    /\ ipc = "idle"
    /\ file_no = 0
    /\ all_data = <<>>
    /\ processed_files = <<>>
    /\ summary = NoSummary
    /\ doc_counter = 1
    /\ saved_images = {}

QueryIdle ==
    /\ rag_system = TRUE
    /\ rag = [initialized |-> FALSE, colpali |-> FALSE, qdrant |-> FALSE, gemini |-> FALSE]
    /\ index = [collection_exists |-> FALSE, vectors_count |-> 0]
    /\ providers = [indexUp |-> TRUE, geminiUp |-> TRUE, webUp |-> TRUE, keyPresent |-> TRUE]
    /\ query = [isStr |-> TRUE, document_score |-> 0, web_score |-> 0, hits |-> <<>>]
    /\ pc = "idle"
    /\ query_analysis = [type |-> None, doc_count |-> 0]
    /\ calls = <<>>
    /\ result = NoResult


\* the model stops taking batches once the collection holds MaxPoints points
IngestBounded ==
    /\ Len(collection.points) < MaxPoints
    /\ Len(document_store) < MaxFiles
    /\ doc_counter <= MaxDocuments

\* process_documents is called with a batch of files
BeginBatch ==
    /\ ipc = "idle"
    /\ IngestBounded
    /\ \E n \in 1..MaxFiles : \E batch \in [1..n -> FileKinds] :
         /\ \A i \in 1..n : ~is_pdf(batch[i]) => ~batch[i].corrupt
         /\ \A i \in 1..n : (~is_pdf(batch[i]) \/ batch[i].corrupt) => batch[i].pages = 1
         /\ files' = batch
    /\ ingest_env' = [indexUp |-> TRUE, initOk |-> TRUE, saveOk |-> TRUE, embed_fail |-> {}]
    /\ ipc' = "files"
    /\ file_no' = 1
    /\ all_data' = <<>>
    /\ processed_files' = <<>>
    /\ summary' = NoSummary
    /\ UNCHANGED <<document_store, embedding_store, lazy_rag, collection, next_uuid,
                   doc_counter, saved_images>>
    /\ UNCHANGED <<qvars, svars, evars, avars, lvars, cvars, gvars, vvars, nvars>>

\* the body of the loop for a PDF that was saved: convert, record, collect
ProcessPdf(f) ==
    LET data == pdf_to_image(f)
        doc_id == new_doc_id(document_store)
    IN /\ document_store' = Append(document_store,
              [doc_id |-> doc_id, filename |-> f.filename,
               pages |-> Len(data), status |-> "indexed"])
       /\ all_data' = all_data \o
              [i \in 1..Len(data) |-> page_data_with_embedding(doc_id, i, f)]
       /\ processed_files' = processed_files \o [i \in 1..Len(data) |-> f.filename]
       /\ file_no' = file_no + 1
       /\ saved_images' = saved_images \cup written_images(f, doc_counter)
       /\ doc_counter' = IF f.corrupt THEN doc_counter ELSE doc_counter + 1
       /\ UNCHANGED <<ipc, summary>>

\* one iteration of `for file in files`
ProcessFile ==
    /\ ipc = "files"
    /\ file_no <= Len(files)
    /\ LET f == files[file_no]
       IN IF ~is_pdf(f)
          THEN /\ file_no' = file_no + 1
               /\ UNCHANGED <<document_store, all_data, processed_files, ipc, summary,
                              ingest_env, doc_counter, saved_images>>
          ELSE \/ \* file.save raises: the outer except answers for the whole batch
                  /\ summary' = [NoSummary EXCEPT !.status = "error"]
                  /\ ipc' = "done"
                  /\ ingest_env' = [ingest_env EXCEPT !.saveOk = FALSE]
                  /\ UNCHANGED <<document_store, all_data, processed_files, file_no,
                                 doc_counter, saved_images>>
               \/ /\ ingest_env' = ingest_env
                  /\ ProcessPdf(f)
    /\ UNCHANGED <<embedding_store, lazy_rag, collection, next_uuid, files>>
    /\ UNCHANGED <<qvars, svars, evars, avars, lvars, cvars, gvars, vvars, nvars>>

\* the (filename, page_number) pairs of a dataset
PagesOf(dataset) == {<<dataset[k].filename, dataset[k].page_number>> : k \in 1..Len(dataset)}

\* after the loop: index all_data through LazyRAG.index_document and return
IndexAndReturn ==
    /\ ipc = "files"
    /\ file_no > Len(files)
    /\ IF all_data = <<>>
       THEN /\ summary' = [NoSummary EXCEPT !.status = "error"]
            /\ UNCHANGED <<embedding_store, lazy_rag, collection, next_uuid, ingest_env>>
       ELSE \E up \in BOOLEAN, ok \in BOOLEAN, ef \in SUBSET PagesOf(all_data) :
            LET env == [ingest_env EXCEPT !.indexUp = up, !.initOk = ok, !.embed_fail = ef]
                r1 == lazy_ensure_initialized(lazy_rag, ok, TRUE)
                c1 == lazy_init_collection(lazy_rag, collection, ok, up)
                ir == index_document(r1, c1, all_data, env)
            IN /\ Cardinality(ef) <= MaxEmbedFailures
               /\ (lazy_rag.initialized => ok = lazy_rag.qdrant)
               /\ ingest_env' = env
               /\ lazy_rag' = r1
               /\ collection' = [c1 EXCEPT !.points = c1.points \o ir.upserted]
               /\ next_uuid' = next_uuid + Len(ir.upserted)
               /\ embedding_store' = embedding_store \cup
                      {<<all_data[k].doc_id, all_data[k].page_number>> : k \in 1..Len(all_data)}
               /\ summary' = [status |-> "success",
                              pages_processed |-> Len(all_data),
                              files_processed |-> processed_files,
                              embeddings_generated |-> Len(all_data),
                              errors |-> <<>>,
                              warnings |-> <<>>]
    /\ ipc' = "done"
    /\ UNCHANGED <<document_store, files, file_no, all_data, processed_files,
                   doc_counter, saved_images>>
    /\ UNCHANGED <<qvars, svars, evars, avars, lvars, cvars, gvars, vvars, nvars>>

\* process_documents hands its dict to the caller
ReturnSummary ==
    /\ ipc = "done"
    /\ ipc' = "idle"
    /\ files' = <<>>
    /\ file_no' = 0
    /\ all_data' = <<>>
    /\ processed_files' = <<>>
    /\ summary' = NoSummary
    /\ ingest_env' = [indexUp |-> TRUE, initOk |-> TRUE, saveOk |-> TRUE, embed_fail |-> {}]
    /\ UNCHANGED <<document_store, embedding_store, lazy_rag, collection, next_uuid,
                   doc_counter, saved_images>>
    /\ UNCHANGED <<qvars, svars, evars, avars, lvars, cvars, gvars, vvars, nvars>>

\* the route builds a new DocumentService for the next upload request
NewDocumentService ==
    /\ ipc = "done"
    /\ document_store # <<>>
    /\ document_store' = <<>>
    /\ embedding_store' = {}
    /\ ipc' = "idle"
    /\ files' = <<>>
    /\ file_no' = 0
    /\ all_data' = <<>>
    /\ processed_files' = <<>>
    /\ summary' = NoSummary
    /\ ingest_env' = [indexUp |-> TRUE, initOk |-> TRUE, saveOk |-> TRUE, embed_fail |-> {}]
    /\ UNCHANGED <<lazy_rag, collection, next_uuid, doc_counter, saved_images>>
    /\ UNCHANGED <<qvars, svars, evars, avars, lvars, cvars, gvars, vvars, nvars>>

NextIngest ==
    \/ BeginBatch
    \/ ProcessFile
    \/ IndexAndReturn
    \/ ReturnSummary
    \/ NewDocumentService



(***************************************************************************)
(* FirebaseAgentService._process_with_agent: request threads sharing       *)
(* os.environ and the LazyRAG singleton                                    *)
(***************************************************************************)
Threads == 1..MaxThreads

Users == {"u1", "u2"}

KeyNames == {"GEMINI_API_KEY", "TAVILY_API_KEY"}

ServerKey == "key_server"

\* ApiKeyService.get_user_api_key for a user who stored a key of their own
get_user_api_key(user, key_name) == user \o ":" \o key_name

\* ApiKeyService.get_api_key_for_agent: the key names, in dict order
required_keys(agent_type) ==
    IF agent_type = "multimodal" THEN <<"GEMINI_API_KEY", "TAVILY_API_KEY">>
    ELSE IF agent_type = "research" THEN <<"TAVILY_API_KEY">>
    ELSE <<"GEMINI_API_KEY">>

NoEnvRequest == [user |-> None, agent_type |-> None, user_docs |-> FALSE]

NothingSaved == [k \in KeyNames |-> [saved |-> FALSE, value |-> None]]

EnvIdle ==
    /\ environ = [k \in KeyNames |-> ServerKey]
    /\ gemini = [initialized |-> FALSE, key |-> None]
    /\ ereq = [t \in Threads |-> NoEnvRequest]
    /\ epc = [t \in Threads |-> "idle"]
    /\ eidx = [t \in Threads |-> 0]
    /\ original_keys = [t \in Threads |-> NothingSaved]
    /\ used = [t \in Threads |-> None]

\* LazyRAG._ensure_initialized with _init_gemini: the first use reads the
\* environment, later uses keep what the first one configured
lazy_init_gemini(g, e) ==
    IF g.initialized THEN g
    ELSE [initialized |-> TRUE, key |-> e["GEMINI_API_KEY"]]

\* a thread enters _process_with_agent for a user's request
EnterProcessWithAgent(t) ==
    /\ epc[t] = "idle"
    /\ \E u \in Users, a \in {"document", "multimodal"}, d \in BOOLEAN :
         ereq' = [ereq EXCEPT ![t] = [user |-> u, agent_type |-> a, user_docs |-> d]]
    /\ epc' = [epc EXCEPT ![t] = "save"]
    /\ eidx' = [eidx EXCEPT ![t] = 1]
    /\ original_keys' = [original_keys EXCEPT ![t] = NothingSaved]
    /\ used' = [used EXCEPT ![t] = None]
    /\ UNCHANGED <<environ, gemini>>
    /\ UNCHANGED <<qvars, ivars, svars, avars, lvars, cvars, gvars, vvars, nvars>>

\* original_keys[key_name] = os.getenv(key_name)
SaveOriginalKey(t) ==
    /\ epc[t] = "save"
    /\ LET k == required_keys(ereq[t].agent_type)[eidx[t]]
       IN original_keys' = [original_keys EXCEPT
                               ![t][k] = [saved |-> TRUE, value |-> environ[k]]]
    /\ epc' = [epc EXCEPT ![t] = "set"]
    /\ UNCHANGED <<environ, gemini, ereq, eidx, used>>
    /\ UNCHANGED <<qvars, ivars, svars, avars, lvars, cvars, gvars, vvars, nvars>>

\* os.environ[key_name] = key_value, then the next key or the agent
SetEnvironKey(t) ==
    /\ epc[t] = "set"
    /\ LET keys == required_keys(ereq[t].agent_type)
           k == keys[eidx[t]]
       IN /\ environ' = [environ EXCEPT ![k] = get_user_api_key(ereq[t].user, k)]
          /\ IF eidx[t] < Len(keys)
             THEN /\ eidx' = [eidx EXCEPT ![t] = eidx[t] + 1]
                  /\ epc' = [epc EXCEPT ![t] = "save"]
             ELSE /\ eidx' = [eidx EXCEPT ![t] = 0]
                  /\ epc' = [epc EXCEPT ![t] = "agent"]
    /\ UNCHANGED <<gemini, ereq, original_keys, used>>
    /\ UNCHANGED <<qvars, ivars, svars, avars, lvars, cvars, gvars, vvars, nvars>>

\* _process_document / _process_multimodal with documents call
\* self.rag.generate_result, whose Gemini call runs with the key LazyRAG
\* configured; the other paths make no keyed call of this repository
ProcessAgent(t) ==
    /\ epc[t] = "agent"
    /\ IF ereq[t].agent_type \in {"document", "multimodal"} /\ ereq[t].user_docs
       THEN /\ gemini' = lazy_init_gemini(gemini, environ)
            /\ used' = [used EXCEPT ![t] = gemini'.key]
       ELSE UNCHANGED <<gemini, used>>
    /\ epc' = [epc EXCEPT ![t] = "restore"]
    /\ eidx' = [eidx EXCEPT ![t] = 1]
    /\ UNCHANGED <<environ, ereq, original_keys>>
    /\ UNCHANGED <<qvars, ivars, svars, avars, lvars, cvars, gvars, vvars, nvars>>

\* the finally block: one iteration of the loop over original_keys
RestoreKey(t) ==
    /\ epc[t] = "restore"
    /\ LET keys == required_keys(ereq[t].agent_type)
           k == keys[eidx[t]]
       IN /\ environ' = [environ EXCEPT ![k] = original_keys[t][k].value]
          /\ IF eidx[t] < Len(keys)
             THEN /\ eidx' = [eidx EXCEPT ![t] = eidx[t] + 1]
                  /\ UNCHANGED epc
             ELSE /\ eidx' = [eidx EXCEPT ![t] = 0]
                  /\ epc' = [epc EXCEPT ![t] = "done"]
    /\ UNCHANGED <<gemini, ereq, original_keys, used>>
    /\ UNCHANGED <<qvars, ivars, svars, avars, lvars, cvars, gvars, vvars, nvars>>

\* _process_with_agent returns and the thread is free for the next request
LeaveProcessWithAgent(t) ==
    /\ epc[t] = "done"
    /\ epc' = [epc EXCEPT ![t] = "idle"]
    /\ ereq' = [ereq EXCEPT ![t] = NoEnvRequest]
    /\ original_keys' = [original_keys EXCEPT ![t] = NothingSaved]
    /\ used' = [used EXCEPT ![t] = None]
    /\ UNCHANGED <<environ, gemini, eidx>>
    /\ UNCHANGED <<qvars, ivars, svars, avars, lvars, cvars, gvars, vvars, nvars>>

\* an upload reaches LazyRAG.index_document, which initialises the singleton
\* with whatever the environment holds at that moment
IndexDocumentInitialisesRag ==
    /\ ~gemini.initialized
    /\ gemini' = lazy_init_gemini(gemini, environ)
    /\ UNCHANGED <<environ, ereq, epc, eidx, original_keys, used>>
    /\ UNCHANGED <<qvars, ivars, svars, avars, lvars, cvars, gvars, vvars, nvars>>

NextEnv ==
    \/ \E t \in Threads : EnterProcessWithAgent(t)
    \/ \E t \in Threads : SaveOriginalKey(t)
    \/ \E t \in Threads : SetEnvironKey(t)
    \/ \E t \in Threads : ProcessAgent(t)
    \/ \E t \in Threads : RestoreKey(t)
    \/ \E t \in Threads : LeaveProcessWithAgent(t)
    \/ IndexDocumentInitialisesRag

(***************************************************************************)
(* Claims about concurrent requests and the process environment (SpecEnv)  *)
(***************************************************************************)
InFlight(t) == epc[t] # "idle"

\* the keys thread t set are still what the environment holds
SeesOwnKeys(t) ==
    LET keys == required_keys(ereq[t].agent_type)
    IN \A i \in 1..Len(keys) :
           environ[keys[i]] = get_user_api_key(ereq[t].user, keys[i])

AllCallsReturned == \A t \in Threads : epc[t] \in {"idle", "done"}

\* the values an API-key variable can have before the first call: the
\* server's key, or unset
ValuesBeforeCalls == {ServerKey, None}

Payloads == [filename : PdfNames, page_number : 1..MaxPages]

\* number of results cited in the response text: relevant_docs[:3]
CitedLimit == 3

\* results[:5] of LightweightRAG.search_documents
LightTopK == 5

\* batch_size of VectorDBClient.create_points and insert_data
BatchSize == 5

NoAnswerRequest == [caller |-> None, initOk |-> TRUE, keyPresent |-> TRUE, embedOk |-> TRUE,
                    searchOk |-> TRUE, geminiUp |-> TRUE, user_docs |-> TRUE, hits |-> <<>>]

NoRagResult == [status |-> None, kind |-> None, documents_found |-> 0,
                search_results |-> <<>>, cited |-> <<>>, contexts |-> <<>>,
                gemini_response |-> None]

\* the dict generate_result returns on each of its error returns; it has no
\* gemini_response key
rag_error == [NoRagResult EXCEPT !.status = "error", !.kind = "error"]

\* doc_info built from a search result's payload
doc_info(payload) == [filename |-> payload.filename, page_number |-> payload.page_number]

\* the first n elements of a sequence: seq[:n]
Take(seq, n) == SubSeq(seq, 1, Min(n, Len(seq)))

\* a listing that numbers the pages by their position in the result list
cited_pairs_by_position(relevant_docs) ==
    LET top == Take(relevant_docs, CitedLimit)
    IN [i \in 1..Len(top) |-> <<top[i].filename, i>>]

\* the (filename, page_number) pairs listed in the response text
cited_pairs(relevant_docs) ==
    LET top == Take(relevant_docs, CitedLimit)
    IN [i \in 1..Len(top) |-> <<top[i].filename, top[i].page_number>>]

\* context_parts: one entry per search result, built from its doc_info
context_parts(relevant_docs) ==
    [i \in 1..Len(relevant_docs) |->
        <<relevant_docs[i].filename, relevant_docs[i].page_number>>]

\* LazyRAG._generate_fallback_response
generate_fallback_response(relevant_docs) ==
    [status |-> "success", kind |-> "fallback",
     documents_found |-> Len(relevant_docs),
     search_results |-> relevant_docs,
     cited |-> cited_pairs(relevant_docs),
     contexts |-> context_parts(relevant_docs),
     gemini_response |-> "Fallback response generated."]

\* LazyRAG.generate_result, after _ensure_initialized gave the fields r
generate_result(r, req) ==
    IF ~r.colpali \/ ~r.qdrant THEN rag_error
    ELSE IF ~req.embedOk THEN rag_error
    ELSE IF ~req.searchOk THEN rag_error
    ELSE LET relevant_docs == [i \in 1..Len(req.hits) |-> doc_info(req.hits[i])]
         IN IF relevant_docs # <<>> /\ r.gemini
            THEN IF req.geminiUp
                 THEN [status |-> "success", kind |-> "analysis",
                       documents_found |-> Len(relevant_docs),
                       search_results |-> relevant_docs,
                       cited |-> cited_pairs(relevant_docs),
                       contexts |-> context_parts(relevant_docs),
                       gemini_response |-> "analysis"]
                 ELSE generate_fallback_response(relevant_docs)
            ELSE [status |-> "success", kind |-> "none_found",
                  documents_found |-> 0,
                  search_results |-> <<>>,
                  cited |-> <<>>,
                  contexts |-> <<>>,
                  gemini_response |-> "No relevant documents found."]

\* LazyRAG.generate_result reaches self._qdrant.client.search: the components
\* are there and the query was embedded; nothing looks at the collection's
\* size before
search_called(r, req) == r.colpali /\ r.qdrant /\ req.embedOk

\* dict.get(key, default) for the gemini_response key
get_gemini_response(rr, default) ==
    IF rr.gemini_response = None THEN default ELSE rr.gemini_response

\* what a caller of generate_result itself receives
direct_answer(rr) ==
    [status |-> rr.status, response |-> rr.kind, cited |-> rr.cited,
     contexts |-> rr.contexts, sources |-> rr.search_results]

\* FirebaseAgentService._process_multimodal with user documents: the dict has
\* response, sources (the absent key 'metadata', so []) and metadata
process_multimodal(rr) ==
    [status |-> None,
     response |-> get_gemini_response(rr, "No relevant information found in your documents."),
     cited |-> rr.cited, contexts |-> rr.contexts, sources |-> <<>>]

\* FirebaseAgentService._process_document with user documents
process_document(rr) ==
    [status |-> None,
     response |-> get_gemini_response(rr, "No documents available for analysis."),
     cited |-> rr.cited, contexts |-> rr.contexts, sources |-> <<>>]

NoAnswer == [status |-> None, response |-> None, cited |-> <<>>, contexts |-> <<>>,
             sources |-> <<>>]

AnswerIdle ==
    /\ answer_rag = [initialized |-> FALSE, colpali |-> FALSE, qdrant |-> FALSE, gemini |-> FALSE]
    /\ stored_pages = {}
    /\ areq = NoAnswerRequest
    /\ apc = "idle"
    /\ rag_result = NoRagResult
    /\ ares = NoAnswer
    /\ search_issued = FALSE

\* the results a search can return: distinct stored pages, at most `limit`
SearchResults ==
    {h \in SeqsUpTo(stored_pages, Min(Min(SearchLimit, MaxHits), Cardinality(stored_pages))) :
        \A i \in 1..Len(h), j \in 1..Len(h) : i # j => h[i] # h[j]}

\* a caller asks a question: generate_result directly, or through the
\* multimodal or document handler of FirebaseAgentService
AnswerCall ==
    /\ apc = "idle"
    /\ \E c \in {"generate_result", "multimodal", "document"}, io \in BOOLEAN,
          kp \in BOOLEAN, eo \in BOOLEAN, so \in BOOLEAN, gu \in BOOLEAN, ud \in BOOLEAN,
          h \in SearchResults :
         /\ c = "generate_result" => ud
         /\ (answer_rag.initialized => (io = answer_rag.qdrant /\ kp = answer_rag.gemini))
         /\ (~io \/ ~eo \/ ~so \/ ~ud) => (h = <<>> /\ gu)
         /\ ~io => (eo /\ so /\ kp)
         /\ ~eo => so
         /\ areq' = [caller |-> c, initOk |-> io, keyPresent |-> kp, embedOk |-> eo,
                     searchOk |-> so, geminiUp |-> gu, user_docs |-> ud, hits |-> h]
    /\ apc' = "rag"
    /\ rag_result' = NoRagResult
    /\ ares' = NoAnswer
    /\ search_issued' = FALSE
    /\ UNCHANGED <<answer_rag, stored_pages>>
    /\ UNCHANGED <<qvars, ivars, svars, evars, lvars, cvars, gvars, vvars, nvars>>

\* the handler has no user documents: _process_document answers that none
\* are available, _process_multimodal falls back to _process_research
AnswerWithoutDocuments ==
    /\ apc = "rag"
    /\ ~areq.user_docs
    /\ ares' = [NoAnswer EXCEPT !.response =
                   IF areq.caller = "document" THEN "No documents available for analysis."
                   ELSE "research"]
    /\ apc' = "done"
    /\ UNCHANGED <<answer_rag, stored_pages, areq, rag_result, search_issued>>
    /\ UNCHANGED <<qvars, ivars, svars, evars, lvars, cvars, gvars, vvars, nvars>>

\* rag.generate_result(query): _ensure_initialized, embedding, search, answer
GenerateResult ==
    /\ apc = "rag"
    /\ areq.user_docs
    /\ LET r1 == lazy_ensure_initialized(answer_rag, areq.initOk, areq.keyPresent)
           rr == generate_result(r1, areq)
       IN /\ answer_rag' = r1
          /\ rag_result' = rr
          /\ search_issued' = search_called(r1, areq)
          /\ IF areq.caller = "generate_result"
             THEN /\ ares' = direct_answer(rr)
                  /\ apc' = "done"
             ELSE /\ ares' = NoAnswer
                  /\ apc' = "agent"
    /\ UNCHANGED <<stored_pages, areq>>
    /\ UNCHANGED <<qvars, ivars, svars, evars, lvars, cvars, gvars, vvars, nvars>>

\* _process_multimodal builds its dict from rag_result
ProcessMultimodal ==
    /\ apc = "agent"
    /\ areq.caller = "multimodal"
    /\ ares' = process_multimodal(rag_result)
    /\ apc' = "done"
    /\ UNCHANGED <<answer_rag, stored_pages, areq, rag_result, search_issued>>
    /\ UNCHANGED <<qvars, ivars, svars, evars, lvars, cvars, gvars, vvars, nvars>>

\* _process_document builds its dict from rag_result
ProcessDocument ==
    /\ apc = "agent"
    /\ areq.caller = "document"
    /\ ares' = process_document(rag_result)
    /\ apc' = "done"
    /\ UNCHANGED <<answer_rag, stored_pages, areq, rag_result, search_issued>>
    /\ UNCHANGED <<qvars, ivars, svars, evars, lvars, cvars, gvars, vvars, nvars>>

\* the answer is handed over
AnswerReturn ==
    /\ apc = "done"
    /\ apc' = "idle"
    /\ areq' = NoAnswerRequest
    /\ rag_result' = NoRagResult
    /\ ares' = NoAnswer
    /\ search_issued' = FALSE
    /\ UNCHANGED <<answer_rag, stored_pages>>
    /\ UNCHANGED <<qvars, ivars, svars, evars, lvars, cvars, gvars, vvars, nvars>>

NextAnswer ==
    \/ AnswerCall
    \/ AnswerWithoutDocuments
    \/ GenerateResult
    \/ ProcessMultimodal
    \/ ProcessDocument
    \/ AnswerReturn

(***************************************************************************)
(* LightweightRAG (index_document, search_documents) and                   *)
(* MultiModalRAG.index_document over VectorDBClient                        *)
(***************************************************************************)
\* page texts, as sequences of characters; none of the characters occurs in
\* the placeholder content or in the keyword lists of search_documents
Texts == {<<"z">>, <<"Z", "q">>, <<"q", " ", "z">>}

\* the content stored for a page whose text could not be extracted:
\* f"Document: {filename}, Page: {page_num} - Content not extracted"
Placeholder == <<"#">>

\* the queries: pieces of the page texts, and one query that matches by word only
Queries == {<<"z">>, <<"Z">>, <<"q">>, <<"Z", "q">>, <<"q", " ", "z">>, <<"z", " ", "Z">>}

\* str.lower()
lower(text) == [i \in 1..Len(text) |-> IF text[i] = "Z" THEN "z" ELSE text[i]]

\* `a in b` for strings
IsSubstring(a, b) ==
    \E i \in 0..(Len(b) - Len(a)) : SubSeq(b, i + 1, i + Len(a)) = a

\* the dataset the converter returns for a PDF: one item per page
converted_dataset(filename, texts, ocr, counter) ==
    [i \in 1..Len(texts) |->
        [doc_id |-> counter, page_number |-> i, filename |-> filename,
         text |-> texts[i], ocrOk |-> ocr[i]]]

\* LightweightRAG.index_document, the content of an item: the PDF text branch
\* tests hasattr(item, 'original_pdf_path') on a dict and never runs, so the
\* content is the OCR text of the image, or the placeholder
light_content(item) == IF item.ocrOk THEN item.text ELSE Placeholder

\* the record stored under key f"{filename}_{page_num}"
light_record(item) ==
    [key |-> <<item.filename, item.page_number>>,
     doc_id |-> item.doc_id, page_number |-> item.page_number,
     filename |-> item.filename, content |-> light_content(item)]

\* self.documents[key] = record: an existing key keeps its position
put_document(docs, rec) ==
    IF \E k \in 1..Len(docs) : docs[k].key = rec.key
    THEN [k \in 1..Len(docs) |-> IF docs[k].key = rec.key THEN rec ELSE docs[k]]
    ELSE Append(docs, rec)

\* LightweightRAG.index_document: the loop over the dataset
RECURSIVE light_index_document(_, _)
light_index_document(docs, dataset) ==
    IF dataset = <<>> THEN docs
    ELSE light_index_document(put_document(docs, light_record(Head(dataset))), Tail(dataset))

\* str.split(): the words of a text, separated by blanks
RECURSIVE split_from(_, _, _)
split_from(text, i, word) ==
    IF i > Len(text) THEN (IF word = <<>> THEN <<>> ELSE <<word>>)
    ELSE IF text[i] = " "
         THEN (IF word = <<>> THEN <<>> ELSE <<word>>) \o split_from(text, i + 1, <<>>)
         ELSE split_from(text, i + 1, Append(word, text[i]))

split(text) == split_from(text, 1, <<>>)

\* LightweightRAG.search_documents, the score of a document in tenths: 9 for
\* the query inside the content, 7 for one of its words inside the content;
\* the keyword bonuses are 0 for queries over these characters
light_score(q, content) ==
    LET query_lower == lower(q)
        words == split(query_lower)
    IN IF IsSubstring(query_lower, lower(content)) THEN 9
       ELSE IF \E w \in 1..Len(words) : IsSubstring(words[w], lower(content)) THEN 7
       ELSE 0

\* LightweightRAG.search_documents: the documents scoring above 0.1, sorted by
\* score (a stable sort), the first LightTopK of them
search_documents(docs, q) ==
    LET isExact(d) == light_score(q, d.content) = 9
        isPartial(d) == light_score(q, d.content) = 7
    IN Take(SelectSeq(docs, isExact) \o SelectSeq(docs, isPartial), LightTopK)

\* VectorDBClient.create_points: `return points` sits inside the loop over the
\* batches, so only the first batch yields points, with ids i + j = j
create_points(dataset) ==
    LET batch == Take(dataset, BatchSize)
    IN [j \in 1..Len(batch) |->
           [id |-> j - 1, doc_id |-> batch[j].doc_id,
            page_num |-> batch[j].page_number, source |-> batch[j].filename]]

\* client.upsert: a point replaces the stored point with the same id
upsert(stored, points) ==
    {p \in stored : \A j \in 1..Len(points) : points[j].id # p.id}
        \cup {points[j] : j \in 1..Len(points)}

\* VectorDBClient.insert_data, first batch: a failed upsert is printed and
\* skipped
insert_data(stored, points, upsertOk) ==
    IF upsertOk THEN upsert(stored, Take(points, BatchSize)) ELSE stored

StoresIdle ==
    /\ light_documents = <<>>
    /\ test_points = {}
    /\ store_counter = 1
    /\ ingested = {}
    /\ lpc = "idle"
    /\ lquery = <<>>
    /\ lresults = <<>>

\* a PDF is converted and handed to LightweightRAG.index_document
LightIndexDocument ==
    /\ lpc = "idle"
    /\ store_counter <= MaxDocuments
    /\ \E f \in PdfNames, n \in 1..MaxPages :
         \E texts \in [1..n -> Texts], ocr \in [1..n -> BOOLEAN] :
            LET dataset == converted_dataset(f, texts, ocr, store_counter)
            IN /\ light_documents' = light_index_document(light_documents, dataset)
               /\ ingested' = ingested \cup
                      {[store |-> "light", doc_id |-> dataset[i].doc_id,
                        page_number |-> dataset[i].page_number,
                        filename |-> dataset[i].filename, text |-> dataset[i].text]
                       : i \in 1..n}
    /\ store_counter' = store_counter + 1
    /\ UNCHANGED <<test_points, lpc, lquery, lresults>>
    /\ UNCHANGED <<qvars, ivars, svars, evars, avars, cvars, gvars, vvars, nvars>>

\* a PDF is converted and handed to MultiModalRAG.index_document
\* the page counts of the PDFs handed to MultiModalRAG.index_document: short
\* ones, one that fills a batch and one that needs a second batch
DatasetLengths == (1..MaxPages) \cup {BatchSize, BatchSize + 1}

MultiModalIndexDocument ==
    /\ lpc = "idle"
    /\ store_counter <= MaxDocuments
    /\ \E f \in PdfNames, n \in DatasetLengths, upsertOk \in BOOLEAN :
         LET dataset == converted_dataset(f, [i \in 1..n |-> <<"z">>],
                                          [i \in 1..n |-> TRUE], store_counter)
         IN /\ test_points' = insert_data(test_points, create_points(dataset), upsertOk)
            /\ ingested' = ingested \cup
                   {[store |-> "test", doc_id |-> dataset[i].doc_id,
                     page_number |-> dataset[i].page_number,
                     filename |-> dataset[i].filename, text |-> dataset[i].text]
                    : i \in 1..n}
    /\ store_counter' = store_counter + 1
    /\ UNCHANGED <<light_documents, lpc, lquery, lresults>>
    /\ UNCHANGED <<qvars, ivars, svars, evars, avars, cvars, gvars, vvars, nvars>>

\* LightweightRAG.search_documents(query)
LightSearch ==
    /\ lpc = "idle"
    /\ \E q \in Queries :
         /\ lquery' = q
         /\ lresults' = search_documents(light_documents, q)
    /\ lpc' = "searched"
    /\ UNCHANGED <<light_documents, test_points, store_counter, ingested>>
    /\ UNCHANGED <<qvars, ivars, svars, evars, avars, cvars, gvars, vvars, nvars>>

\* the caller has the results
LightSearchReturn ==
    /\ lpc = "searched"
    /\ lpc' = "idle"
    /\ lquery' = <<>>
    /\ lresults' = <<>>
    /\ UNCHANGED <<light_documents, test_points, store_counter, ingested>>
    /\ UNCHANGED <<qvars, ivars, svars, evars, avars, cvars, gvars, vvars, nvars>>

NextStores ==
    \/ LightIndexDocument
    \/ MultiModalIndexDocument
    \/ LightSearch
    \/ LightSearchReturn

(***************************************************************************)
(* FirebaseChatService: sessions and messages in Firestore, called from    *)
(* concurrent request threads.  A session's owner and a message's session  *)
(* and sender never change once written and no document is removed, so an  *)
(* operation that reads them and then writes once is one step; add_message *)
(* writes twice after its read and is modelled step by step.               *)
(***************************************************************************)
Senders == {"user", "ai"}

NoChatCall == [pc |-> "idle", session_id |-> 0, sender |-> None, message_count |-> 0]

\* doc.exists for a session / message id
session_exists(session_id) == session_id \in 1..Len(chat_sessions)

message_exists(message_id) == message_id \in 1..Len(messages)

\* FirebaseChatService.get_chat_session(session_id, user_id): the session, or
\* None for a missing session and for a session of another user
get_chat_session(session_id, user_id) ==
    IF ~session_exists(session_id) THEN None
    ELSE IF user_id # None /\ chat_sessions[session_id].user_id # user_id THEN None
    ELSE "session"

\* the ownership test of update_message and delete_message: made for the
\* messages whose sender is 'user' only
message_access(message_id, user_id) ==
    IF ~message_exists(message_id) THEN FALSE
    ELSE IF messages[message_id].sender = "user"
         THEN get_chat_session(messages[message_id].session_id, user_id) # None
         ELSE TRUE

ChatIdle ==
    /\ chat_sessions = <<>>
    /\ messages = <<>>
    /\ chat = [t \in Threads |-> NoChatCall]
    /\ chat_result = None

\* add_message calls that have passed their access test and not yet written
\* their message
PendingMessages == Cardinality({t \in Threads : chat[t].pc = "set"})

\* FirebaseChatService.create_chat_session(user_id)
CreateChatSession ==
    /\ Len(chat_sessions) < MaxSessions
    /\ \E u \in Users :
         chat_sessions' = Append(chat_sessions,
             [user_id |-> u, is_active |-> TRUE, message_count |-> 0])
    /\ chat_result' = "session"
    /\ UNCHANGED <<messages, chat>>
    /\ UNCHANGED <<qvars, ivars, svars, evars, avars, lvars, gvars, vvars, nvars>>

\* get_chat_session(session_id, user_id) returns the session with its
\* messages, or None
GetChatSession(session_id, user_id) ==
    /\ chat_result' = get_chat_session(session_id, user_id)
    /\ UNCHANGED <<chat_sessions, messages, chat>>
    /\ UNCHANGED <<qvars, ivars, svars, evars, avars, lvars, gvars, vvars, nvars>>

\* delete_chat_session(session_id, user_id): the soft delete after the
\* ownership test
DeleteChatSession(session_id, user_id) ==
    /\ IF get_chat_session(session_id, user_id) = None
       THEN /\ chat_result' = "False"
            /\ UNCHANGED chat_sessions
       ELSE /\ chat_sessions' = [chat_sessions EXCEPT ![session_id].is_active = FALSE]
            /\ chat_result' = "True"
    /\ UNCHANGED <<messages, chat>>
    /\ UNCHANGED <<qvars, ivars, svars, evars, avars, lvars, gvars, vvars, nvars>>

\* add_message(session_id, text, sender, user_id), first step:
\* get_chat_session, whose message_count the call keeps; None ends the call
AddMessageVerify(t, session_id, sender, user_id) ==
    /\ chat[t].pc = "idle"
    /\ IF get_chat_session(session_id, user_id) = None
       THEN /\ chat_result' = None
            /\ UNCHANGED chat
       ELSE /\ Len(messages) + PendingMessages < MaxMessages
            /\ chat' = [chat EXCEPT ![t] =
                   [pc |-> "set", session_id |-> session_id, sender |-> sender,
                    message_count |-> chat_sessions[session_id].message_count]]
            /\ UNCHANGED chat_result
    /\ UNCHANGED <<chat_sessions, messages>>
    /\ UNCHANGED <<qvars, ivars, svars, evars, avars, lvars, gvars, vvars, nvars>>

\* add_message, second step: the message document is written
AddMessageSet(t) ==
    /\ chat[t].pc = "set"
    /\ messages' = Append(messages,
           [session_id |-> chat[t].session_id, sender |-> chat[t].sender,
            text |-> "text", is_deleted |-> FALSE])
    /\ chat' = [chat EXCEPT ![t].pc = "count"]
    /\ UNCHANGED <<chat_sessions, chat_result>>
    /\ UNCHANGED <<qvars, ivars, svars, evars, avars, lvars, gvars, vvars, nvars>>

\* add_message, third step: message_count becomes the count read before, plus
\* 1, and the message is returned
AddMessageUpdateCount(t) ==
    /\ chat[t].pc = "count"
    /\ chat_sessions' = [chat_sessions EXCEPT
           ![chat[t].session_id].message_count = chat[t].message_count + 1]
    /\ chat' = [chat EXCEPT ![t] = NoChatCall]
    /\ chat_result' = "message"
    /\ UNCHANGED messages
    /\ UNCHANGED <<qvars, ivars, svars, evars, avars, lvars, gvars, vvars, nvars>>

\* update_message(message_id, text, user_id)
UpdateMessage(message_id, user_id) ==
    /\ IF ~message_access(message_id, user_id)
       THEN /\ chat_result' = "False"
            /\ UNCHANGED messages
       ELSE /\ messages' = [messages EXCEPT ![message_id].text = "edited"]
            /\ chat_result' = "True"
    /\ UNCHANGED <<chat_sessions, chat>>
    /\ UNCHANGED <<qvars, ivars, svars, evars, avars, lvars, gvars, vvars, nvars>>

\* delete_message(message_id, user_id): the soft delete
DeleteMessage(message_id, user_id) ==
    /\ IF ~message_access(message_id, user_id)
       THEN /\ chat_result' = "False"
            /\ UNCHANGED messages
       ELSE /\ messages' = [messages EXCEPT ![message_id].is_deleted = TRUE]
            /\ chat_result' = "True"
    /\ UNCHANGED <<chat_sessions, chat>>
    /\ UNCHANGED <<qvars, ivars, svars, evars, avars, lvars, gvars, vvars, nvars>>

NextChat ==
    \/ CreateChatSession
    \/ \E sid \in 1..MaxSessions, u \in Users : GetChatSession(sid, u)
    \/ \E sid \in 1..MaxSessions, u \in Users : DeleteChatSession(sid, u)
    \/ \E t \in Threads, sid \in 1..MaxSessions, sender \in Senders, u \in Users :
          AddMessageVerify(t, sid, sender, u)
    \/ \E t \in Threads : AddMessageSet(t)
    \/ \E t \in Threads : AddMessageUpdateCount(t)
    \/ \E mid \in 1..MaxMessages, u \in Users : UpdateMessage(mid, u)
    \/ \E mid \in 1..MaxMessages, u \in Users : DeleteMessage(mid, u)

(***************************************************************************)
(* SimpleColpaliClient.get_query_embeddings / _simple_embedding, called    *)
(* from concurrent request threads: np.random.seed and np.random.normal    *)
(* are two calls on the one generator of the process                       *)
(***************************************************************************)
\* the texts embedded: queries, and the f"image_{i}" of get_image_embeddings
EmbedTexts == {"q1", "q2", "image_0"}

\* int(hashlib.md5(text.encode()).hexdigest(), 16) % (2**32): a value fixed
\* by the text, different for these texts
md5_seed(text) == "md5(" \o text \o ") % 2**32"

\* np.random.normal(0, 1, 768) on a generator: the values are fixed by its
\* seed and by how many vectors were drawn from it since it was seeded
normal(generator) == [seed |-> generator.seed, drawn |-> generator.drawn]

NoVector == [seed |-> None, drawn |-> 0]

NoEmbedCall == [pc |-> "idle", text |-> None, embedding |-> NoVector]

EmbedIdle ==
    /\ np_random = [seed |-> "entropy", drawn |-> 0]
    /\ emb = [t \in Threads |-> NoEmbedCall]

\* a request thread enters get_query_embeddings / _simple_embedding
EmbedCall(t) ==
    /\ emb[t].pc = "idle"
    /\ \E text \in EmbedTexts :
         emb' = [emb EXCEPT ![t] = [NoEmbedCall EXCEPT !.pc = "seed", !.text = text]]
    /\ UNCHANGED np_random
    /\ UNCHANGED <<qvars, ivars, svars, evars, avars, lvars, cvars, vvars, nvars>>

\* np.random.seed(seed)
NpRandomSeed(t) ==
    /\ emb[t].pc = "seed"
    /\ np_random' = [seed |-> md5_seed(emb[t].text), drawn |-> 0]
    /\ emb' = [emb EXCEPT ![t].pc = "normal"]
    /\ UNCHANGED <<qvars, ivars, svars, evars, avars, lvars, cvars, vvars, nvars>>

\* embedding = np.random.normal(0, 1, embedding_size).tolist()
NpRandomNormal(t) ==
    /\ emb[t].pc = "normal"
    /\ emb' = [emb EXCEPT ![t].pc = "done", ![t].embedding = normal(np_random)]
    /\ np_random' = [np_random EXCEPT !.drawn = np_random.drawn + 1]
    /\ UNCHANGED <<qvars, ivars, svars, evars, avars, lvars, cvars, vvars, nvars>>

\* return embedding
EmbedReturn(t) ==
    /\ emb[t].pc = "done"
    /\ emb' = [emb EXCEPT ![t] = NoEmbedCall]
    /\ UNCHANGED np_random
    /\ UNCHANGED <<qvars, ivars, svars, evars, avars, lvars, cvars, vvars, nvars>>

NextEmbed ==
    \/ \E t \in Threads : EmbedCall(t)
    \/ \E t \in Threads : NpRandomSeed(t)
    \/ \E t \in Threads : NpRandomNormal(t)
    \/ \E t \in Threads : EmbedReturn(t)

(***************************************************************************)
(* The sufficiency verdict: MultiModalRAG.evaluate_retrieval_quality and   *)
(* the 'evaluation' of LightweightRAG.generate_result                      *)
(***************************************************************************)
\* scores in tenths that a retrieved page can carry
VerdictScores == {2, 3, 6, 7, 8, 9, 10}

\* the keyword bonuses of LightweightRAG.search_documents, in tenths:
\* none, 0.2, 0.3, both
KeywordBonuses == {0, 2, 3, 5}

\* the content scores of LightweightRAG.search_documents, in tenths
ContentScores == {0, 7, 9}

NoEvaluation == [by |-> None, sufficient |-> FALSE, confidence |-> None]

\* a result list LightweightRAG.search_documents can return: not empty (the
\* empty list returns "no_results" without an evaluation), every score above
\* 0.1 and made of a content score and the query's keyword bonus, sorted
is_search_result(scores) ==
    /\ scores # <<>>
    /\ \A i \in 1..Len(scores) : scores[i] > 1
    /\ \A i \in 1..(Len(scores) - 1) : scores[i] >= scores[i + 1]
    /\ \E b \in KeywordBonuses : \A i \in 1..Len(scores) :
          \E c \in ContentScores : scores[i] = c + b

\* LightweightRAG.generate_result, its 'evaluation': always sufficient, high
\* when the first score is above 0.7
light_evaluation(scores) ==
    [sufficient |-> TRUE,
     confidence |-> IF scores[1] > LightHighThreshold THEN "high" ELSE "medium"]

VerdictIdle ==
    /\ retrieved_scores = <<>>
    /\ evaluation = NoEvaluation

\* MultiModalRAG.generate_result evaluates what it retrieved
EvaluateRetrievalQuality ==
    /\ evaluation.by = None
    /\ LET e == evaluate_retrieval_quality(retrieved_scores)
       IN evaluation' = [by |-> "MultiModalRAG", sufficient |-> e.sufficient,
                         confidence |-> e.confidence]
    /\ UNCHANGED retrieved_scores
    /\ UNCHANGED <<qvars, ivars, svars, evars, avars, lvars, cvars, gvars, nvars>>

\* LightweightRAG.generate_result builds its evaluation
LightGenerateResult ==
    /\ evaluation.by = None
    /\ is_search_result(retrieved_scores)
    /\ LET e == light_evaluation(retrieved_scores)
       IN evaluation' = [by |-> "LightweightRAG", sufficient |-> e.sufficient,
                         confidence |-> e.confidence]
    /\ UNCHANGED retrieved_scores
    /\ UNCHANGED <<qvars, ivars, svars, evars, avars, lvars, cvars, gvars, nvars>>

NextVerdict ==
    \/ EvaluateRetrievalQuality
    \/ LightGenerateResult

(***************************************************************************)
(* LazyRAG._ensure_initialized and _init_collection under concurrent first *)
(* calls (CleanRAGSystem._ensure_initialized has the same shape)           *)
(***************************************************************************)
NoFirstCall == [pc |-> "idle", collection_exists |-> FALSE]

InitIdle ==
    /\ rag_initialized = FALSE
    /\ qdrant_collections = FALSE
    /\ init_body_runs = 0
    /\ create_on_existing = FALSE
    /\ first_call = [t \in Threads |-> NoFirstCall]

\* index_document, generate_result or process_query starts on the shared
\* instance: `if not self._initialized:` is read, and the body is entered
EnsureInitialized(t) ==
    /\ first_call[t].pc = "idle"
    /\ IF rag_initialized
         THEN /\ first_call' = [first_call EXCEPT ![t].pc = "ready"]
              /\ UNCHANGED init_body_runs
         ELSE /\ first_call' = [first_call EXCEPT ![t].pc = "list"]
              /\ init_body_runs' = init_body_runs + 1
    /\ UNCHANGED <<rag_initialized, qdrant_collections, create_on_existing>>
    /\ UNCHANGED <<qvars, ivars, svars, evars, avars, lvars, cvars, gvars, vvars>>

\* _init_collection lists the collections; a failed listing goes to the
\* except branch, which creates without looking
GetCollections(t) ==
    /\ first_call[t].pc = "list"
    /\ \E listed \in BOOLEAN :
         first_call' = [first_call EXCEPT ![t] =
            IF listed
              THEN [pc |-> IF qdrant_collections THEN "flag" ELSE "create",
                    collection_exists |-> qdrant_collections]
              ELSE [pc |-> "create", collection_exists |-> FALSE]]
    /\ UNCHANGED <<rag_initialized, qdrant_collections, init_body_runs, create_on_existing>>
    /\ UNCHANGED <<qvars, ivars, svars, evars, avars, lvars, cvars, gvars, vvars>>

\* create_collection is sent; Qdrant rejects it for a collection that exists,
\* the rejection and the retry that follows it are swallowed
CreateCollection(t) ==
    /\ first_call[t].pc = "create"
    /\ IF qdrant_collections
         THEN create_on_existing' = TRUE /\ UNCHANGED qdrant_collections
         ELSE qdrant_collections' = TRUE /\ UNCHANGED create_on_existing
    /\ first_call' = [first_call EXCEPT ![t].pc = "flag"]
    /\ UNCHANGED <<rag_initialized, init_body_runs>>
    /\ UNCHANGED <<qvars, ivars, svars, evars, avars, lvars, cvars, gvars, vvars>>

\* the last statement of the body: self._initialized = True
SetInitialized(t) ==
    /\ first_call[t].pc = "flag"
    /\ rag_initialized' = TRUE
    /\ first_call' = [first_call EXCEPT ![t].pc = "ready"]
    /\ UNCHANGED <<qdrant_collections, init_body_runs, create_on_existing>>
    /\ UNCHANGED <<qvars, ivars, svars, evars, avars, lvars, cvars, gvars, vvars>>

\* the operation itself runs and returns
FirstCallReturn(t) ==
    /\ first_call[t].pc = "ready"
    /\ first_call' = [first_call EXCEPT ![t] = NoFirstCall]
    /\ UNCHANGED <<rag_initialized, qdrant_collections, init_body_runs, create_on_existing>>
    /\ UNCHANGED <<qvars, ivars, svars, evars, avars, lvars, cvars, gvars, vvars>>

NextInit ==
    \E t \in Threads :
        \/ EnsureInitialized(t)
        \/ GetCollections(t)
        \/ CreateCollection(t)
        \/ SetInitialized(t)
        \/ FirstCallReturn(t)

(***************************************************************************)
(* agents.update_agent_status, QueryService, FirebaseAgentService and the  *)
(* HTTP endpoints                                                          *)
(***************************************************************************)
AgentStatusKeys == {"lightweight", "document", "web_search", "multimodal", "research"}

\* the agent types a caller can name
AgentTypes == {"lightweight", "multimodal", "document", "research", "chat", "web_search"}

\* parameters of `def update_agent_status(agent_type: str, status: str)`
update_agent_status_params == {"agent_type", "status"}

\* a call binds its keyword arguments to parameters; an unknown keyword is a
\* TypeError
call_raises(keywords) == ~(keywords \subseteq update_agent_status_params)

\* agents.update_agent_status
update_agent_status(st, agent_type, status) ==
    IF agent_type \in DOMAIN st
    THEN [st EXCEPT ![agent_type] = [status |-> status, last_used |-> TRUE]]
    ELSE st

\* AgentSelector.select_agent returns the pair (best_agent, scores)
select_agent(best) == [kind |-> "tuple", agent |-> best]

\* x.get(...) exists on a dict, not on a tuple
get_raises(x) == x.kind # "dict"

NoRequest == [op |-> None, agent_type |-> None, selected |-> None, keys_ok |-> TRUE,
              agent_ok |-> TRUE, task_ok |-> TRUE, has_body |-> TRUE,
              query_empty |-> FALSE, batch |-> <<>>, save_ok |-> TRUE]

NoResponse == [kind |-> None, success |-> FALSE, http |-> 0]

Raised == [kind |-> "raised", success |-> FALSE, http |-> 0]

ReturnedDict(ok) == [kind |-> "returned", success |-> ok, http |-> 0]

Http(code) == [kind |-> "returned", success |-> code = 200, http |-> code]

\* QueryService.process_query: the status of the dict it returns
qs_process_query(agent_type, selected, agent_ok, task_ok) ==
    IF agent_type = None /\ get_raises(select_agent(selected)) THEN "error"
    ELSE IF ~agent_ok THEN "error"
    ELSE IF agent_type = "document" THEN "error"
    ELSE IF task_ok THEN "success" ELSE "error"

\* DocumentService.process_documents: the status of the dict it returns
process_documents_status(batch, save_ok) ==
    LET pdfs == {i \in 1..Len(batch) : is_pdf(batch[i])}
    IN IF pdfs # {} /\ ~save_ok THEN "error"
       ELSE IF \E i \in pdfs : pdf_to_image(batch[i]) # <<>> THEN "success"
       ELSE "error"

\* routes/agent.py process_query, the /query endpoint
agent_route_query(r) ==
    IF ~r.has_body THEN Http(400)
    ELSE IF r.query_empty THEN Http(400)
    ELSE IF qs_process_query(r.agent_type, r.selected, r.agent_ok, r.task_ok) = "success"
    THEN Http(200)
    ELSE Http(500)

\* api/routes.py query with its helper process_query, the /query/ endpoint
api_route_query(r) ==
    IF ~r.has_body THEN Http(400)
    ELSE IF r.query_empty THEN Http(400)
    ELSE IF r.agent_type = None /\ get_raises(select_agent(r.selected)) THEN Http(500)
    ELSE IF qs_process_query(r.agent_type, r.selected, r.agent_ok, r.task_ok) = "success"
    THEN Http(200)
    ELSE Http(500)

\* routes/agent.py upload_document and api/routes.py upload
route_upload(r) ==
    IF r.batch = <<>> THEN Http(400)
    ELSE IF process_documents_status(r.batch, r.save_ok) = "success" THEN Http(200)
    ELSE Http(500)

ServiceIdle ==
    /\ agent_status = [a \in AgentStatusKeys |-> [status |-> "online", last_used |-> FALSE]]
    /\ sreq = NoRequest
    /\ spc = "idle"
    /\ sres = NoResponse

InitService == QueryIdle /\ IngestIdle /\ ServiceIdle /\ EnvIdle /\ AnswerIdle /\ StoresIdle /\ ChatIdle /\ EmbedIdle /\ VerdictIdle /\ InitIdle

Ops == {"process_user_query", "qs_process_query", "agent_route_query",
        "api_route_query", "route_upload"}

\* start_server.initialize_agents: one iteration of its loop
InitializeAgents ==
    /\ spc = "idle"
    /\ \E a \in {"multimodal", "chat", "document", "research", "lightweight"} :
         agent_status' = IF call_raises({})
                         THEN agent_status
                         ELSE update_agent_status(agent_status, a, "online")
    /\ UNCHANGED <<sreq, spc, sres>>
    /\ UNCHANGED <<qvars, ivars, evars, avars, lvars, cvars, gvars, vvars, nvars>>

\* a caller invokes one of the public operations
ServiceCall ==
    /\ spc = "idle"
    /\ \E op \in Ops, at \in AgentTypes \cup {None}, sel \in AgentTypes \ {"web_search"},
          ko \in BOOLEAN, ao \in BOOLEAN, tk \in BOOLEAN, hb \in BOOLEAN, qe \in BOOLEAN,
          sv \in BOOLEAN, b \in {<<>>} \cup [1..1 -> FileKinds] :
         /\ op # "route_upload" => (b = <<>> /\ sv)
         /\ op = "route_upload" => (at = None /\ ao /\ tk /\ hb /\ ~qe)
         /\ op \in {"process_user_query", "qs_process_query"} => (hb /\ ~qe)
         /\ op # "process_user_query" => ko
         /\ at # None => sel = "lightweight"
         /\ \A i \in 1..Len(b) : (~is_pdf(b[i]) \/ b[i].corrupt) => b[i].pages = 1
         /\ \A i \in 1..Len(b) : ~is_pdf(b[i]) => ~b[i].corrupt
         /\ sreq' = [op |-> op, agent_type |-> at, selected |-> sel, keys_ok |-> ko,
                     agent_ok |-> ao, task_ok |-> tk, has_body |-> hb, query_empty |-> qe,
                     batch |-> b, save_ok |-> sv]
    /\ spc' = "body"
    /\ sres' = NoResponse
    /\ UNCHANGED agent_status
    /\ UNCHANGED <<qvars, ivars, evars, avars, lvars, cvars, gvars, vvars, nvars>>

\* FirebaseAgentService.process_user_query, the try body: it returns the
\* missing-keys dict, or runs the agent and reaches
\* update_agent_status(agent_type, "online", success=True, response_time=...)
ProcessUserQueryBody ==
    /\ spc = "body"
    /\ sreq.op = "process_user_query"
    /\ IF ~sreq.keys_ok
       THEN /\ sres' = ReturnedDict(FALSE)
            /\ spc' = "done"
            /\ UNCHANGED agent_status
       ELSE IF call_raises({"success", "response_time"})
       THEN /\ spc' = "except"
            /\ UNCHANGED <<agent_status, sres>>
       ELSE /\ agent_status' = update_agent_status(agent_status,
                                   IF sreq.agent_type = None THEN sreq.selected
                                   ELSE sreq.agent_type, "online")
            /\ sres' = ReturnedDict(TRUE)
            /\ spc' = "done"
    /\ UNCHANGED sreq
    /\ UNCHANGED <<qvars, ivars, evars, avars, lvars, cvars, gvars, vvars, nvars>>

\* FirebaseAgentService.process_user_query, the except branch:
\* update_agent_status(agent_type or "unknown", "online", success=False)
ProcessUserQueryExcept ==
    /\ spc = "except"
    /\ IF call_raises({"success"})
       THEN /\ sres' = Raised
            /\ UNCHANGED agent_status
       ELSE /\ agent_status' = update_agent_status(agent_status,
                                   IF sreq.agent_type = None THEN sreq.selected
                                   ELSE sreq.agent_type, "online")
            /\ sres' = ReturnedDict(FALSE)
    /\ spc' = "done"
    /\ UNCHANGED sreq
    /\ UNCHANGED <<qvars, ivars, evars, avars, lvars, cvars, gvars, vvars, nvars>>

\* QueryService.process_query called directly
QueryServiceProcessQuery ==
    /\ spc = "body"
    /\ sreq.op = "qs_process_query"
    /\ sres' = ReturnedDict(qs_process_query(sreq.agent_type, sreq.selected,
                                             sreq.agent_ok, sreq.task_ok) = "success")
    /\ spc' = "done"
    /\ UNCHANGED <<agent_status, sreq>>
    /\ UNCHANGED <<qvars, ivars, evars, avars, lvars, cvars, gvars, vvars, nvars>>

\* POST /query of routes/agent.py
AgentRouteQuery ==
    /\ spc = "body"
    /\ sreq.op = "agent_route_query"
    /\ sres' = agent_route_query(sreq)
    /\ spc' = "done"
    /\ UNCHANGED <<agent_status, sreq>>
    /\ UNCHANGED <<qvars, ivars, evars, avars, lvars, cvars, gvars, vvars, nvars>>

\* POST /query/ of api/routes.py
ApiRouteQuery ==
    /\ spc = "body"
    /\ sreq.op = "api_route_query"
    /\ sres' = api_route_query(sreq)
    /\ spc' = "done"
    /\ UNCHANGED <<agent_status, sreq>>
    /\ UNCHANGED <<qvars, ivars, evars, avars, lvars, cvars, gvars, vvars, nvars>>

\* POST /upload of routes/agent.py and of api/routes.py
RouteUpload ==
    /\ spc = "body"
    /\ sreq.op = "route_upload"
    /\ sres' = route_upload(sreq)
    /\ spc' = "done"
    /\ UNCHANGED <<agent_status, sreq>>
    /\ UNCHANGED <<qvars, ivars, evars, avars, lvars, cvars, gvars, vvars, nvars>>

\* the caller has its answer
ServiceReturn ==
    /\ spc = "done"
    /\ spc' = "idle"
    /\ sreq' = NoRequest
    /\ sres' = NoResponse
    /\ UNCHANGED agent_status
    /\ UNCHANGED <<qvars, ivars, evars, avars, lvars, cvars, gvars, vvars, nvars>>

NextService ==
    \/ InitializeAgents
    \/ ServiceCall
    \/ ProcessUserQueryBody
    \/ ProcessUserQueryExcept
    \/ QueryServiceProcessQuery
    \/ AgentRouteQuery
    \/ ApiRouteQuery
    \/ RouteUpload
    \/ ServiceReturn

SpecService == InitService /\ [][NextService]_vars

InitEnv ==
    /\ QueryIdle /\ IngestIdle /\ ServiceIdle /\ AnswerIdle /\ StoresIdle /\ ChatIdle /\ EmbedIdle /\ VerdictIdle /\ InitIdle
    /\ \E v \in {None, ServerKey} : environ = [k \in KeyNames |-> v]
    /\ gemini = [initialized |-> FALSE, key |-> None]
    /\ ereq = [t \in Threads |-> NoEnvRequest]
    /\ epc = [t \in Threads |-> "idle"]
    /\ eidx = [t \in Threads |-> 0]
    /\ original_keys = [t \in Threads |-> NothingSaved]
    /\ used = [t \in Threads |-> None]

SpecEnv == InitEnv /\ [][NextEnv]_vars

\* the collection holds some pages that earlier uploads indexed
InitAnswer ==
    /\ QueryIdle /\ IngestIdle /\ ServiceIdle /\ EnvIdle /\ StoresIdle /\ ChatIdle /\ EmbedIdle /\ VerdictIdle /\ InitIdle
    /\ answer_rag = [initialized |-> FALSE, colpali |-> FALSE, qdrant |-> FALSE, gemini |-> FALSE]
    /\ stored_pages \in SUBSET Payloads
    /\ areq = NoAnswerRequest
    /\ apc = "idle"
    /\ rag_result = NoRagResult
    /\ ares = NoAnswer
    /\ search_issued = FALSE

InitStores == QueryIdle /\ IngestIdle /\ ServiceIdle /\ EnvIdle /\ AnswerIdle /\ StoresIdle /\ ChatIdle /\ EmbedIdle /\ VerdictIdle /\ InitIdle

SpecStores == InitStores /\ [][NextStores]_vars

InitChat ==
    /\ QueryIdle /\ IngestIdle /\ ServiceIdle /\ EnvIdle /\ AnswerIdle /\ StoresIdle /\ ChatIdle /\ EmbedIdle /\ VerdictIdle /\ InitIdle

SpecChat == InitChat /\ [][NextChat]_vars

InitEmbed ==
    /\ QueryIdle /\ IngestIdle /\ ServiceIdle /\ EnvIdle /\ AnswerIdle /\ StoresIdle /\ ChatIdle
    /\ EmbedIdle /\ VerdictIdle /\ InitIdle

SpecEmbed == InitEmbed /\ [][NextEmbed]_vars

\* the retrieval whose verdict is computed: any list of up to MaxResults scores
InitVerdict ==
    /\ QueryIdle /\ IngestIdle /\ ServiceIdle /\ EnvIdle /\ AnswerIdle /\ StoresIdle /\ ChatIdle
    /\ EmbedIdle /\ InitIdle
    /\ retrieved_scores \in SeqsUpTo(VerdictScores, MaxResults)
    /\ evaluation = NoEvaluation

SpecVerdict == InitVerdict /\ [][NextVerdict]_vars

\* the process has just started: the instance is uninitialized, the collection
\* may be left over from an earlier run
InitFirstCalls ==
    /\ QueryIdle /\ IngestIdle /\ ServiceIdle /\ EnvIdle /\ AnswerIdle /\ StoresIdle /\ ChatIdle
    /\ EmbedIdle /\ VerdictIdle
    /\ rag_initialized = FALSE
    /\ qdrant_collections \in BOOLEAN
    /\ init_body_runs = 0
    /\ create_on_existing = FALSE
    /\ first_call = [t \in Threads |-> NoFirstCall]

SpecInit == InitFirstCalls /\ [][NextInit]_vars

SpecAnswer == InitAnswer /\ [][NextAnswer]_vars

InitIngest == IngestIdle /\ QueryIdle /\ ServiceIdle /\ EnvIdle /\ AnswerIdle /\ StoresIdle /\ ChatIdle /\ EmbedIdle /\ VerdictIdle /\ InitIdle

SpecIngest == InitIngest /\ [][NextIngest]_vars

InitQuerySystem == InitQuery /\ IngestIdle /\ ServiceIdle /\ EnvIdle /\ AnswerIdle /\ StoresIdle /\ ChatIdle /\ EmbedIdle /\ VerdictIdle /\ InitIdle

SpecQuery == InitQuerySystem /\ [][NextQuery]_vars

(***************************************************************************)
(* Claims about answers built from retrieval (SpecAnswer)                  *)
(***************************************************************************)
Answered == apc = "done"

\* generate_result ran with working components and the vector search raised
SearchFailed ==
    /\ Answered /\ areq.user_docs
    /\ answer_rag.colpali /\ answer_rag.qdrant
    /\ areq.embedOk /\ ~areq.searchOk

\* the texts that tell the caller nothing relevant was found
EmptyResultTexts ==
    {"none_found", "No relevant documents found.",
     "No relevant information found in your documents.",
     "No documents available for analysis."}

\* C12: a vector search that failed reaches the caller as an explicit error,
\* never as one of the 'nothing relevant found' answers.
C12_FailedSearchIsError ==
    SearchFailed => (ares.status = "error" /\ ares.response \notin EmptyResultTexts)

\* the (filename, page_number) pairs of the pages the search returned
RetrievedPairs ==
    {<<areq.hits[k].filename, areq.hits[k].page_number>> : k \in 1..Len(areq.hits)}

\* C13: when the search returned at least one page and the generative model
\* is not configured or its call fails, generate_result answers with the
\* templated response built from the retrieved pages, citing them.
C13_GenerationDegradesToTemplate ==
    (/\ Answered /\ areq.caller = "generate_result"
     /\ areq.hits # <<>>
     /\ (~answer_rag.gemini \/ ~areq.geminiUp))
        => /\ ares.status = "success"
           /\ ares.response = "fallback"
           /\ ares.cited # <<>>
           /\ \A i \in 1..Len(ares.cited) : ares.cited[i] \in RetrievedPairs

\* C14: every (filename, page_number) cited in an answer built from documents
\* is the pair of a page that the search returned for this query and that was
\* among the contexts handed to synthesis.
C14_CitationsGrounded ==
    Answered =>
        /\ \A i \in 1..Len(ares.cited) :
              /\ ares.cited[i] \in RetrievedPairs
              /\ \E j \in 1..Len(ares.contexts) : ares.contexts[j] = ares.cited[i]
        /\ \A i \in 1..Len(ares.sources) :
              <<ares.sources[i].filename, ares.sources[i].page_number>> \in RetrievedPairs

\* an answer that cites CitedLimit pages out of more retrieved ones
C14_Witness ==
    /\ Answered
    /\ Len(ares.cited) = CitedLimit
    /\ Len(areq.hits) > CitedLimit
    /\ ares.response \in {"analysis", "fallback", "Fallback response generated."}

\* C24: when the vector index holds no records, a query is answered as
\* insufficient (nothing found) and no search call goes to the vector store.
C24_EmptyIndexSkipsSearch ==
    (Answered /\ areq.caller = "generate_result" /\ stored_pages = {})
        => /\ ~search_issued
           /\ ares.response \in EmptyResultTexts

(***************************************************************************)
(* Claims about the chat sessions and messages (SpecChat)                  *)
(***************************************************************************)
\* session_id is a session of somebody other than user_id
ForeignSession(session_id, user_id) ==
    session_exists(session_id) /\ chat_sessions[session_id].user_id # user_id

\* message_id is a message in a session of somebody other than user_id
ForeignMessage(message_id, user_id) ==
    message_exists(message_id) /\ ForeignSession(messages[message_id].session_id, user_id)

\* C21: no chat operation lets a user read, modify or delete a session or a
\* message of another user's session: every such call is denied (None or
\* False) and leaves the sessions and the messages as they were.
C21_NoCrossUserAccess ==
    [][/\ \A sid \in 1..MaxSessions, u \in Users :
             ForeignSession(sid, u) =>
                /\ GetChatSession(sid, u) => chat_result' = None
                /\ DeleteChatSession(sid, u)
                      => (chat_result' = "False" /\ chat_sessions' = chat_sessions)
                /\ \A t \in Threads, sender \in Senders :
                      AddMessageVerify(t, sid, sender, u)
                         => (chat_result' = None /\ chat' = chat)
       /\ \A mid \in 1..MaxMessages, u \in Users :
             ForeignMessage(mid, u) =>
                /\ UpdateMessage(mid, u) => (chat_result' = "False" /\ messages' = messages)
                /\ DeleteMessage(mid, u) => (chat_result' = "False" /\ messages' = messages)]_vars

\* every add_message call has completed
AllAddMessageCallsCompleted == \A t \in Threads : chat[t].pc = "idle"

\* the messages stored for a session
StoredMessages(session_id) ==
    {m \in 1..Len(messages) : messages[m].session_id = session_id}

\* C30: for any interleaving of concurrent add_message calls on a session,
\* once every call has completed the session's message_count is the number
\* of messages stored for the session.
C30_MessageCountMatchesMessages ==
    AllAddMessageCallsCompleted =>
        \A sid \in 1..Len(chat_sessions) :
            chat_sessions[sid].message_count = Cardinality(StoredMessages(sid))

(***************************************************************************)
(* Claims about the embeddings (SpecEmbed)                                 *)
(***************************************************************************)
\* the vector a text gets when nothing else touches the generator between
\* its seed and its draw
SoloVector(text) == [seed |-> md5_seed(text), drawn |-> 0]

\* C22: for identical input text the embedding call returns the same vector
\* on every call, calls overlapping with other embedding calls included:
\* every returned vector is the vector the text gets on its own.
C22_EmbeddingDeterministic ==
    \A t \in Threads : emb[t].pc = "done" => emb[t].embedding = SoloVector(emb[t].text)

(***************************************************************************)
(* Claims about the sufficiency verdict (SpecVerdict)                      *)
(***************************************************************************)
Evaluated == evaluation.by # None

\* mean score above a threshold given in tenths
MeanAbove(scores, tenths) == SumSeq(scores) > tenths * Len(scores)

\* C23: the verdict is sufficient with high confidence exactly when the mean
\* score is above 0.8 and at least 2 results were retrieved, sufficient with
\* medium confidence when otherwise the mean is above 0.6 and at least 1
\* result was retrieved, and insufficient in every other case, the empty
\* result set included.
C23_SufficiencyVerdict ==
    Evaluated =>
        IF Len(retrieved_scores) >= 2 /\ MeanAbove(retrieved_scores, 8)
        THEN evaluation.sufficient /\ evaluation.confidence = "high"
        ELSE IF Len(retrieved_scores) >= 1 /\ MeanAbove(retrieved_scores, 6)
        THEN evaluation.sufficient /\ evaluation.confidence = "medium"
        ELSE ~evaluation.sufficient

(***************************************************************************)
(* Claims about the document stores                                        *)
(***************************************************************************)
\* the records of both stores, each tagged with its store
StoredRecords ==
    {[store |-> "light", doc_id |-> light_documents[k].doc_id,
      page_number |-> light_documents[k].page_number,
      filename |-> light_documents[k].filename] : k \in 1..Len(light_documents)}
        \cup {[store |-> "test", doc_id |-> p.doc_id, page_number |-> p.page_num,
               filename |-> p.source] : p \in test_points}

\* C17: ingesting a further file, the same file again included, never
\* overwrites, removes or alters the index records of a Document ingested
\* before: every record in a store before a step is in the store after it.
C17_EarlierRecordsUntouched ==
    [][\A r \in StoredRecords : r \in StoredRecords']_vars

\* a search of the LightweightRAG store has returned
LightSearched == lpc = "searched"

\* the pages given to LightweightRAG.index_document so far
LightPages == {P \in ingested : P.store = "light"}

\* page P is among the results, under its own filename and page number
ReturnsPage(P) ==
    \E i \in 1..Len(lresults) :
        /\ lresults[i].doc_id = P.doc_id
        /\ lresults[i].filename = P.filename
        /\ lresults[i].page_number = P.page_number

\* C19: for every ingested page P with text T, a query that is a substring of
\* T returns P among the results, with P's filename and page number.
C19_SubstringFindsPage ==
    LightSearched =>
        \A P \in LightPages : IsSubstring(lquery, P.text) => ReturnsPage(P)

\* the text kept with an index record: the text_content / content of its
\* payload, None when the payload has none
text_content_of(rec) ==
    IF "text_content" \in DOMAIN rec THEN rec.text_content
    ELSE IF "content" \in DOMAIN rec THEN rec.content
    ELSE None

\* the records of the two indexes
IndexRecords == test_points \cup {light_documents[k] : k \in 1..Len(light_documents)}

\* C25: no page's record enters an index before a text_content (the
\* extracted text or a placeholder) has been produced for the page: every
\* record a step adds carries the text derived for its page.
C25_TextBeforeUpsert ==
    [][\A rec \in IndexRecords' \ IndexRecords :
          text_content_of(rec) # None /\ text_content_of(rec) # <<>>]_vars

(***************************************************************************)
(* Claims about the service operations and the endpoints (SpecService)     *)
(***************************************************************************)
ServiceDone == spc = "done"

WellFormed ==
    IF sreq.op = "route_upload" THEN sreq.batch # <<>>
    ELSE sreq.has_body /\ ~sreq.query_empty

\* C6: FirebaseAgentService.process_user_query and QueryService.process_query
\* hand their caller a returned structured result for every provider outcome;
\* no completed call ends with an exception propagating to the caller.
C6_NoExceptionPropagates ==
    (ServiceDone /\ sreq.op \in {"process_user_query", "qs_process_query"})
        => sres.kind = "returned"

\* C7: the upload and query endpoints answer a well-formed request (files
\* provided; a body with a non-empty query) with success, whatever the
\* providers did; only a malformed request gets an error status.
C7_OnlyMalformedRequestsFail ==
    (/\ ServiceDone
     /\ sreq.op \in {"agent_route_query", "api_route_query", "route_upload"}
     /\ WellFormed)
        => sres.http = 200

\* C20: a query without agent_type is handed to the agent that
\* AgentSelector.select_agent picks and, the agent being available and its
\* task succeeding, comes back as a success that reports the selected agent.
C20_AutoSelectedAgentAnswers ==
    (/\ ServiceDone
     /\ sreq.op \in {"qs_process_query", "agent_route_query", "api_route_query"}
     /\ sreq.agent_type = None /\ sreq.selected # None
     /\ WellFormed /\ sreq.agent_ok /\ sreq.task_ok)
        => sres.kind = "returned" /\ sres.success

(***************************************************************************)
(* Claims about DocumentService.process_documents (SpecIngest)             *)
(***************************************************************************)
BatchDone == ipc = "done"

ValidFiles == {i \in 1..Len(files) : is_pdf(files[i]) /\ ~files[i].corrupt}

CorruptFiles == {i \in 1..Len(files) : is_pdf(files[i]) /\ files[i].corrupt}

RECURSIVE SumPages(_)
SumPages(I) ==
    IF I = {} THEN 0
    ELSE LET i == CHOOSE x \in I : TRUE IN files[i].pages + SumPages(I \ {i})

Elements(seq) == {seq[k] : k \in 1..Len(seq)}

\* pages of the batch whose embedding call raised / did not raise
FailedPages == {k \in 1..Len(all_data) :
                   <<all_data[k].filename, all_data[k].page_number>> \in ingest_env.embed_fail}

EmbeddedPages == (1..Len(all_data)) \ FailedPages

Indexed(k) ==
    \E n \in 1..Len(collection.points) :
        /\ collection.points[n].doc_id = all_data[k].doc_id
        /\ collection.points[n].page_number = all_data[k].page_number
        /\ collection.points[n].filename = all_data[k].filename

\* C9: a batch in which one file is an unreadable PDF still processes the
\* remaining files; the summary lists the valid filenames in files_processed,
\* counts only the valid files' pages in pages_processed and holds an error
\* entry naming the corrupted file
C9_BatchPartialFailure ==
    (BatchDone /\ ingest_env.saveOk /\ CorruptFiles # {} /\ ValidFiles # {})
        => /\ summary.status = "success"
           /\ Elements(summary.files_processed) = {files[i].filename : i \in ValidFiles}
           /\ summary.pages_processed = SumPages(ValidFiles)
           /\ \A i \in CorruptFiles :
                 \E e \in Elements(summary.errors) : e.filename = files[i].filename

\* C10: when embedding fails for one page, the remaining pages of the batch
\* are still embedded and indexed, the failed page is kept out of the index
\* and recorded with embedding_generated = false, and the summary returned to
\* the caller surfaces a warning
C10_EmbeddingFailureRecorded ==
    (/\ BatchDone /\ summary.status = "success" /\ FailedPages # {}
     /\ ingest_env.indexUp /\ lazy_rag.qdrant /\ collection.exists)
        => /\ \A k \in EmbeddedPages : Indexed(k)
           /\ \A k \in FailedPages : ~all_data[k].embedding_generated
           /\ summary.warnings # <<>>

\* the step in which process_documents indexes all_data and builds its summary
IndexStep == ipc = "files" /\ ipc' = "done" /\ all_data # <<>>

\* the points the index accepted during that step
AcceptedInStep == Len(collection'.points) - Len(collection.points)

\* C11: when the upsert of a batch fails (the index is unreachable or the
\* collection is missing while every page was embedded), the summary does not
\* report more stored records than the index accepted: the failure is
\* reported as a partial success with the true count, never dropped.
C11_FailedUpsertReported ==
    [][(/\ IndexStep
        /\ lazy_rag'.colpali /\ lazy_rag'.qdrant
        /\ ingest_env'.embed_fail = {}
        /\ (~ingest_env'.indexUp \/ ~collection'.exists))
           => summary'.embeddings_generated <= AcceptedInStep]_vars

\* the points of the collection
Points == {collection.points[k] : k \in 1..Len(collection.points)}

\* C15: for every indexed page, the (document id, page number) pair kept in
\* its payload is the pair under which its image was written when the PDF was
\* rasterized: building the image path from the retrieved pair finds an image
\* written at ingestion.
C15_PageIdentityPreserved ==
    \A p \in Points : page_image_path(p.doc_id, p.page_number, p.filename) \in saved_images

\* C16: no two Documents ever share a document_id: two different index
\* records with the same doc_id are two different pages of one file.
C16_DocumentIdsNeverReused ==
    \A p \in Points, q \in Points :
        (p.id # q.id /\ p.doc_id = q.doc_id)
            => (p.filename = q.filename /\ p.page_number # q.page_number)

\* the batch at hand is a file set ingested before: the collection holds the
\* pages of the batch, one point for each, from the earlier run
SameFileSetAgain ==
    /\ Len(collection.points) = Len(all_data)
    /\ \A k \in 1..Len(all_data) :
          /\ collection.points[k].filename = all_data[k].filename
          /\ collection.points[k].page_number = all_data[k].page_number

\* C18: ingesting the same file set a second time reports the pages_processed
\* of the first run and leaves at most one retrievable point for each
\* (document id, page number).
C18_ReingestionIdempotent ==
    [][(IndexStep /\ SameFileSetAgain /\ summary'.status = "success")
          => /\ summary'.pages_processed = Len(collection.points)
             /\ \A p \in Points', q \in Points' :
                   p.id # q.id => <<p.doc_id, p.page_number>> # <<q.doc_id, q.page_number>>]_vars

(***************************************************************************)
(* Claims about UnifiedAgent.process_query (SpecQuery)                     *)
(***************************************************************************)
Sources == {"document", "web_search", "general_knowledge"}

Returned == pc = "done"

\* the search of the current query reached the index and came back
RetrievalCompleted ==
    /\ Returned
    /\ "local_retrieval" \in {calls[i] : i \in 1..Len(calls)}
    /\ providers.indexUp

WebSearched == "web_search" \in {calls[i] : i \in 1..Len(calls)}

\* C1: every result returned by UnifiedAgent.process_query carries a source
\* that is one of 'document', 'web_search', 'general_knowledge', whatever the
\* query and the provider outcome, an internal exception included
C1_SourceDisclosed == Returned => result.source \in Sources

\* C2: when local retrieval for the query yields an insufficient verdict
\* (nothing retrieved, or scores below the thresholds), the answer returned
\* never has source 'document'
C2_InsufficientNeverDocument ==
    (RetrievalCompleted /\ ~evaluate_retrieval_quality(query.hits).sufficient)
        => result.source # "document"

\* C3: whenever at least one document is present in the index, a query
\* attempts local retrieval before any web search or general-knowledge
\* answer, whatever keywords it contains
C3_LocalRetrievalFirst ==
    (Returned /\ query.isStr /\ index.vectors_count > 0 /\ query_analysis.doc_count > 0)
        => (Len(calls) > 0 /\ calls[1] = "local_retrieval")

\* C4: when local retrieval is insufficient, or no documents exist, and web
\* search is available, a web search is performed and the answer has source
\* 'web_search'
C4_InsufficientGoesToWeb ==
    (/\ Returned /\ query.isStr /\ providers.webUp /\ providers.indexUp
     /\ \/ index.vectors_count = 0
        \/ RetrievalCompleted /\ ~evaluate_retrieval_quality(query.hits).sufficient)
        => (WebSearched /\ result.source = "web_search")

\* C5: when both the vector index and web search are unreachable, a query
\* returns status 'success' with source 'general_knowledge' and a non-empty
\* response, and no exception is raised
C5_EverythingDown ==
    (Returned /\ query.isStr /\ ~providers.indexUp /\ ~providers.webUp)
        => /\ result.status = "success"
           /\ result.source = "general_knowledge"
           /\ result.response # None
           /\ ~result.raised

(***************************************************************************)
(* Claims about LazyRAG._ensure_initialized (SpecInit)                     *)
(***************************************************************************)
\* some thread is inside the initialization body while another has been
\* through the flag test
ConcurrentFirstCalls ==
    \E t \in Threads, u \in Threads :
        t # u /\ first_call[t].pc # "idle" /\ first_call[u].pc # "idle"

\* C27: for any interleaving of concurrent first calls on the shared instance
\* the body of _ensure_initialized is entered at most once, and
\* create_collection is never sent for a collection that exists
C27_InitializedOnce ==
    init_body_runs <= 1 /\ ~create_on_existing

(***************************************************************************)
(* Claims about MultiModalRAG.index_document (SpecStores)                  *)
(***************************************************************************)
\* the vector records that carry a page's doc_id, page number and filename
RecordsOfPage(points, page) ==
    {p \in points : /\ p.doc_id = page.doc_id
                    /\ p.page_num = page.page_number
                    /\ p.source = page.filename}

\* C28: when MultiModalRAG.index_document has stored a dataset, the collection
\* holds exactly one record for every page of that dataset, whatever its length
C28_OneRecordPerPage ==
    [][(MultiModalIndexDocument /\ test_points' # test_points)
          => \A page \in ingested' \ ingested :
                Cardinality(RecordsOfPage(test_points', page)) = 1]_vars

(***************************************************************************)
(* Claims about the status of a document (SpecIngest)                      *)
(***************************************************************************)
\* process_documents is not in the middle of a batch
BatchAtRest == ipc # "files"

\* the pages of a document that the vector index holds
StoredPagesOf(doc_id) == {p \in Points : p.doc_id = doc_id}

\* C29: once process_documents has answered, a document has status 'indexed'
\* only if pages of it are stored in the vector index
C29_IndexedOnlyWhenStored ==
    BatchAtRest =>
        \A k \in 1..Len(document_store) :
            document_store[k].status = "indexed"
                => StoredPagesOf(document_store[k].doc_id) # {}

====
